---- MODULE Spec2Model ----
(***************************************************************************)
(* Model of the AssistX command interpretation engine                      *)
(* (nlp/command_interpreter.py) together with the collaborators it calls   *)
(* (database/db_manager.py) and the HTTP entry points of main.py that      *)
(* write the same store.                                                   *)
(*                                                                         *)
(* Text is modelled character by character: a Python str is a sequence of  *)
(* one-character strings, so that regular-expression search, confidence    *)
(* (a ratio of lengths), normalisation, title-casing and the formatting of *)
(* responses are computed as the code computes them.                       *)
(***************************************************************************)
EXTENDS Integers, Sequences, FiniteSets, TLC

(***************************************************************************)
(* Characters                                                              *)
(***************************************************************************)
LowerLetters == <<"a", "b", "c", "d", "e", "f", "g", "h", "i", "j", "k", "l", "m", "n", "o", "p", "q", "r", "s", "t", "u", "v", "w", "x", "y", "z">>
UpperLetters == <<"A", "B", "C", "D", "E", "F", "G", "H", "I", "J", "K", "L", "M", "N", "O", "P", "Q", "R", "S", "T", "U", "V", "W", "X", "Y", "Z">>
DigitChars == <<"0", "1", "2", "3", "4", "5", "6", "7", "8", "9">>

\* Body with its name bound to v: v is evaluated once, however often Body
\* uses it
Let(v, Body(_)) == Body(v)

MaxOf(S) == CHOOSE x \in S : \A y \in S : y <= x
MinOf(S) == CHOOSE x \in S : \A y \in S : x <= y

Range(s) == {s[i] : i \in 1..Len(s)}

IsLower(c) == c \in Range(LowerLetters)
IsUpper(c) == c \in Range(UpperLetters)
IsAlpha(c) == IsLower(c) \/ IsUpper(c)
IsDigit(c) == c \in Range(DigitChars)
IsSpace(c) == c \in {" ", "\t", "\n"}
IsWord(c) == IsAlpha(c) \/ IsDigit(c) \/ c = "_"

IndexIn(s, c) == CHOOSE i \in 1..Len(s) : s[i] = c

\* str.lower() / str.upper() on one character
ToLower(c) == IF IsUpper(c) THEN LowerLetters[IndexIn(UpperLetters, c)] ELSE c
ToUpper(c) == IF IsLower(c) THEN UpperLetters[IndexIn(LowerLetters, c)] ELSE c

Lower(s) == [i \in 1..Len(s) |-> ToLower(s[i])] \o <<>>

\* str.title(): a cased character is upper-cased when it follows an uncased
\* character (or starts the string) and lower-cased otherwise
Title(s) == [i \in 1..Len(s) |->
               IF i = 1 \/ ~IsAlpha(s[i - 1]) THEN ToUpper(s[i]) ELSE ToLower(s[i])] \o <<>>

\* str.strip()
Strip(s) ==
    Let({i \in 1..Len(s) : ~IsSpace(s[i])},
        LAMBDA ink : IF ink = {} THEN <<>> ELSE SubSeq(s, MinOf(ink), MaxOf(ink)))

\* needle in haystack (Python "in" on str)
StartsAt(needle, s, pos) ==
    /\ pos + Len(needle) - 1 <= Len(s)
    /\ \A i \in 1..Len(needle) : s[pos + i - 1] = needle[i]
Contains(s, needle) == \E pos \in 1..(Len(s) + 1) : StartsAt(needle, s, pos)

\* str(n) for a natural number
RECURSIVE Str(_)
Str(n) == IF n < 10 THEN <<DigitChars[n + 1]>> ELSE Str(n \div 10) \o <<DigitChars[(n % 10) + 1]>>
\* zero-padded two-digit field (%02d)
Str2(n) == IF n < 10 THEN <<"0">> \o Str(n) ELSE Str(n)

\* int(s) for a string of digits
RECURSIVE ParseInt(_)
ParseInt(s) == IF Len(s) = 0 THEN 0 ELSE 10 * ParseInt(SubSeq(s, 1, Len(s) - 1)) + (IndexIn(DigitChars, s[Len(s)]) - 1)

(***************************************************************************)
(* Regular expressions (the subset of Python's re the code uses).          *)
(* A pattern is a sequence of items; search is leftmost, quantifiers are   *)
(* greedy and backtrack, alternatives are tried in order.                  *)
(***************************************************************************)
Lit(s) == [t |-> "lit", s |-> s, cls |-> "", min |-> 0, max |-> 0, alts |-> <<>>, g |-> 0]
\* max = 0 stands for "unbounded"
Rep(cls, min, max) == [t |-> "rep", s |-> <<>>, cls |-> cls, min |-> min, max |-> max, alts |-> <<>>, g |-> 0]
Alt(alts) == [t |-> "alt", s |-> <<>>, cls |-> "", min |-> 0, max |-> 0, alts |-> alts, g |-> 0]
Open(g) == [t |-> "open", s |-> <<>>, cls |-> "", min |-> 0, max |-> 0, alts |-> <<>>, g |-> g]
Close(g) == [t |-> "close", s |-> <<>>, cls |-> "", min |-> 0, max |-> 0, alts |-> <<>>, g |-> g]

InClass(cls, c) ==
    CASE cls = "any" -> c # "\n"
      [] cls = "space" -> IsSpace(c)
      [] cls = "digit" -> IsDigit(c)
      [] cls = "word" -> IsWord(c)
      [] cls = "alphaspace" -> IsAlpha(c) \/ IsSpace(c)
      [] cls = "dot" -> c = "."

\* number of consecutive characters of class cls from pos, at most limit (0 = no limit)
Run(cls, text, pos, limit) ==
    Let(MinOf({j \in pos..(Len(text) + 1) : j = Len(text) + 1 \/ ~InClass(cls, text[j])}) - pos,
        LAMBDA k : IF limit # 0 /\ k > limit THEN limit ELSE k)

LitAt(lit, text, pos, ic) ==
    /\ pos + Len(lit) - 1 <= Len(text)
    /\ \A i \in 1..Len(lit) :
          IF ic THEN ToLower(text[pos + i - 1]) = ToLower(lit[i]) ELSE text[pos + i - 1] = lit[i]

NoMatch == [ok |-> FALSE, start |-> 0, end |-> 0, g1s |-> 0, g1e |-> 0]

\* the pattern has a capturing group (match.groups() is non-empty)
RECURSIVE HasGroups(_)
HasGroups(pat) ==
    \E i \in 1..Len(pat) :
        \/ pat[i].t = "open"
        \/ pat[i].t = "alt" /\ \E a \in 1..Len(pat[i].alts) : HasGroups(pat[i].alts[a])

\* the positions a repetition item can stop at when it starts at pos
RepStops(it, text, pos) == (pos + it.min)..(pos + Run(it.cls, text, pos, it.max))

\* CanMatch(pat, text, ic): the positions from which the items of pat match
\* (whatever the choices made); the recursion is on the items, not the text
RECURSIVE CanMatch(_, _, _)
CanMatch(pat, text, ic) ==
    IF Len(pat) = 0 THEN 1..(Len(text) + 1)
    ELSE Let(Head(pat), LAMBDA it : Let(Tail(pat), LAMBDA rest :
            IF it.t = "alt"
            THEN UNION {CanMatch(it.alts[a] \o rest, text, ic) : a \in 1..Len(it.alts)}
            ELSE Let(CanMatch(rest, text, ic), LAMBDA after :
                     CASE it.t = "lit" ->
                           {pos \in 1..(Len(text) + 1) :
                               LitAt(it.s, text, pos, ic) /\ (pos + Len(it.s)) \in after}
                      [] it.t = "rep" ->
                           {pos \in 1..(Len(text) + 1) :
                               RepStops(it, text, pos) \cap after # {}}
                      [] OTHER -> after)))

\* The match the backtracking matcher returns from pos: at every choice the
\* first alternative, in the matcher's order of preference (a greedy
\* repetition prefers the longest run, alternatives are tried left to
\* right), from which the rest of the pattern can still match.
\* g1s, g1e are the bounds of group 1 so far.
RECURSIVE MatchFrom(_, _, _, _, _, _)
MatchFrom(pat, text, pos, g1s, g1e, ic) ==
    IF Len(pat) = 0 THEN [ok |-> TRUE, start |-> 0, end |-> pos, g1s |-> g1s, g1e |-> g1e]
    ELSE Let(Head(pat), LAMBDA it : Let(Tail(pat), LAMBDA rest :
            CASE it.t = "lit" ->
                    IF LitAt(it.s, text, pos, ic)
                    THEN MatchFrom(rest, text, pos + Len(it.s), g1s, g1e, ic)
                    ELSE NoMatch
              [] it.t = "rep" ->
                    Let(RepStops(it, text, pos) \cap CanMatch(rest, text, ic),
                        LAMBDA stops :
                            IF stops = {} THEN NoMatch
                            ELSE MatchFrom(rest, text, MaxOf(stops), g1s, g1e, ic))
              [] it.t = "alt" ->
                    Let({a \in 1..Len(it.alts) :
                            pos \in CanMatch(it.alts[a] \o rest, text, ic)},
                        LAMBDA live :
                            IF live = {} THEN NoMatch
                            ELSE MatchFrom(it.alts[MinOf(live)] \o rest, text, pos,
                                           g1s, g1e, ic))
              [] it.t = "open" ->
                    MatchFrom(rest, text, pos, IF it.g = 1 THEN pos ELSE g1s, g1e, ic)
              [] it.t = "close" ->
                    MatchFrom(rest, text, pos, g1s, IF it.g = 1 THEN pos ELSE g1e, ic)))

\* re.search(pattern, text, flags); ic = re.IGNORECASE: the leftmost start
\* from which the pattern matches
Search(pat, text, ic) ==
    Let(CanMatch(pat, text, ic), LAMBDA starts :
        IF starts = {} THEN NoMatch
        ELSE [MatchFrom(pat, text, MinOf(starts), 0, 0, ic) EXCEPT !.start = MinOf(starts)])

\* match.group(0) and match.group(1)
Group0(text, m) == SubSeq(text, m.start, m.end - 1)
Group1(text, m) == SubSeq(text, m.g1s, m.g1e - 1)

(***************************************************************************)
(* Pattern registry (CommandInterpreter._load_intent_patterns)             *)
(***************************************************************************)
BookAppointmentPatterns == <<
    \* book.*appointment.*for\s+([a-zA-Z\s]+)
    <<Lit(<<"b", "o", "o", "k">>), Rep("any", 0, 0), Lit(<<"a", "p", "p", "o", "i", "n", "t", "m", "e", "n", "t">>), Rep("any", 0, 0), Lit(<<"f", "o", "r">>), Rep("space", 1, 0), Open(1), Rep("alphaspace", 1, 0), Close(1)>>,
    \* schedule.*appointment.*([a-zA-Z\s]+)
    <<Lit(<<"s", "c", "h", "e", "d", "u", "l", "e">>), Rep("any", 0, 0), Lit(<<"a", "p", "p", "o", "i", "n", "t", "m", "e", "n", "t">>), Rep("any", 0, 0), Open(1), Rep("alphaspace", 1, 0), Close(1)>>,
    \* make.*appointment.*([a-zA-Z\s]+)
    <<Lit(<<"m", "a", "k", "e">>), Rep("any", 0, 0), Lit(<<"a", "p", "p", "o", "i", "n", "t", "m", "e", "n", "t">>), Rep("any", 0, 0), Open(1), Rep("alphaspace", 1, 0), Close(1)>>,
    \* set.*appointment.*([a-zA-Z\s]+)
    <<Lit(<<"s", "e", "t">>), Rep("any", 0, 0), Lit(<<"a", "p", "p", "o", "i", "n", "t", "m", "e", "n", "t">>), Rep("any", 0, 0), Open(1), Rep("alphaspace", 1, 0), Close(1)>>,
    \* appointment.*([a-zA-Z\s]+).*at\s+(\d+)
    <<Lit(<<"a", "p", "p", "o", "i", "n", "t", "m", "e", "n", "t">>), Rep("any", 0, 0), Open(1), Rep("alphaspace", 1, 0), Close(1), Rep("any", 0, 0), Lit(<<"a", "t">>), Rep("space", 1, 0), Open(2), Rep("digit", 1, 0), Close(2)>>,
    \* book.*([a-zA-Z\s]+).*(\d+\s*(?:am|pm|AM|PM))
    <<Lit(<<"b", "o", "o", "k">>), Rep("any", 0, 0), Open(1), Rep("alphaspace", 1, 0), Close(1), Rep("any", 0, 0), Open(2), Rep("digit", 1, 0), Rep("space", 0, 0), Alt(<<<<Lit(<<"a", "m">>)>>, <<Lit(<<"p", "m">>)>>, <<Lit(<<"A", "M">>)>>, <<Lit(<<"P", "M">>)>>>>), Close(2)>>,
    \* schedule.*([a-zA-Z\s]+).*(\d+\s*(?:am|pm|AM|PM))
    <<Lit(<<"s", "c", "h", "e", "d", "u", "l", "e">>), Rep("any", 0, 0), Open(1), Rep("alphaspace", 1, 0), Close(1), Rep("any", 0, 0), Open(2), Rep("digit", 1, 0), Rep("space", 0, 0), Alt(<<<<Lit(<<"a", "m">>)>>, <<Lit(<<"p", "m">>)>>, <<Lit(<<"A", "M">>)>>, <<Lit(<<"P", "M">>)>>>>), Close(2)>> >>

QueryPatientPatterns == <<
    \* show.*(?:last\s+visit|history|info|information).*for\s+([a-zA-Z\s]+)
    <<Lit(<<"s", "h", "o", "w">>), Rep("any", 0, 0), Alt(<<<<Lit(<<"l", "a", "s", "t">>), Rep("space", 1, 0), Lit(<<"v", "i", "s", "i", "t">>)>>, <<Lit(<<"h", "i", "s", "t", "o", "r", "y">>)>>, <<Lit(<<"i", "n", "f", "o">>)>>, <<Lit(<<"i", "n", "f", "o", "r", "m", "a", "t", "i", "o", "n">>)>>>>), Rep("any", 0, 0), Lit(<<"f", "o", "r">>), Rep("space", 1, 0), Open(1), Rep("alphaspace", 1, 0), Close(1)>>,
    \* get.*(?:patient|info|information).*([a-zA-Z\s]+)
    <<Lit(<<"g", "e", "t">>), Rep("any", 0, 0), Alt(<<<<Lit(<<"p", "a", "t", "i", "e", "n", "t">>)>>, <<Lit(<<"i", "n", "f", "o">>)>>, <<Lit(<<"i", "n", "f", "o", "r", "m", "a", "t", "i", "o", "n">>)>>>>), Rep("any", 0, 0), Open(1), Rep("alphaspace", 1, 0), Close(1)>>,
    \* find.*patient.*([a-zA-Z\s]+)
    <<Lit(<<"f", "i", "n", "d">>), Rep("any", 0, 0), Lit(<<"p", "a", "t", "i", "e", "n", "t">>), Rep("any", 0, 0), Open(1), Rep("alphaspace", 1, 0), Close(1)>>,
    \* look.*up.*([a-zA-Z\s]+)
    <<Lit(<<"l", "o", "o", "k">>), Rep("any", 0, 0), Lit(<<"u", "p">>), Rep("any", 0, 0), Open(1), Rep("alphaspace", 1, 0), Close(1)>>,
    \* tell.*me.*about.*([a-zA-Z\s]+)
    <<Lit(<<"t", "e", "l", "l">>), Rep("any", 0, 0), Lit(<<"m", "e">>), Rep("any", 0, 0), Lit(<<"a", "b", "o", "u", "t">>), Rep("any", 0, 0), Open(1), Rep("alphaspace", 1, 0), Close(1)>>,
    \* what.*about.*([a-zA-Z\s]+)
    <<Lit(<<"w", "h", "a", "t">>), Rep("any", 0, 0), Lit(<<"a", "b", "o", "u", "t">>), Rep("any", 0, 0), Open(1), Rep("alphaspace", 1, 0), Close(1)>>,
    \* ([a-zA-Z\s]+).*patient.*information
    <<Open(1), Rep("alphaspace", 1, 0), Close(1), Rep("any", 0, 0), Lit(<<"p", "a", "t", "i", "e", "n", "t">>), Rep("any", 0, 0), Lit(<<"i", "n", "f", "o", "r", "m", "a", "t", "i", "o", "n">>)>> >>

ViewAppointmentsPatterns == <<
    <<Lit(<<"s", "h", "o", "w">>), Rep("any", 0, 0), Lit(<<"a", "p", "p", "o", "i", "n", "t", "m", "e", "n", "t", "s">>)>>,
    <<Lit(<<"l", "i", "s", "t">>), Rep("any", 0, 0), Lit(<<"a", "p", "p", "o", "i", "n", "t", "m", "e", "n", "t", "s">>)>>,
    <<Lit(<<"w", "h", "a", "t">>), Rep("any", 0, 0), Lit(<<"a", "p", "p", "o", "i", "n", "t", "m", "e", "n", "t", "s">>)>>,
    <<Lit(<<"v", "i", "e", "w">>), Rep("any", 0, 0), Lit(<<"a", "p", "p", "o", "i", "n", "t", "m", "e", "n", "t", "s">>)>>,
    <<Lit(<<"a", "p", "p", "o", "i", "n", "t", "m", "e", "n", "t", "s">>), Rep("any", 0, 0), Lit(<<"t", "o", "d", "a", "y">>)>>,
    <<Lit(<<"t", "o", "d", "a", "y">>), Rep("any", 0, 0), Lit(<<"a", "p", "p", "o", "i", "n", "t", "m", "e", "n", "t", "s">>)>>,
    <<Lit(<<"s", "c", "h", "e", "d", "u", "l", "e">>), Rep("any", 0, 0), Lit(<<"t", "o", "d", "a", "y">>)>> >>

ViewPatientsPatterns == <<
    <<Lit(<<"s", "h", "o", "w">>), Rep("any", 0, 0), Lit(<<"p", "a", "t", "i", "e", "n", "t", "s">>)>>,
    <<Lit(<<"l", "i", "s", "t">>), Rep("any", 0, 0), Lit(<<"p", "a", "t", "i", "e", "n", "t", "s">>)>>,
    <<Lit(<<"a", "l", "l">>), Rep("any", 0, 0), Lit(<<"p", "a", "t", "i", "e", "n", "t", "s">>)>>,
    <<Lit(<<"v", "i", "e", "w">>), Rep("any", 0, 0), Lit(<<"p", "a", "t", "i", "e", "n", "t", "s">>)>>,
    <<Lit(<<"p", "a", "t", "i", "e", "n", "t">>), Rep("any", 0, 0), Lit(<<"l", "i", "s", "t">>)>> >>

GreetingPatterns == <<
    <<Lit(<<"h", "e", "l", "l", "o">>)>>, <<Lit(<<"h", "i">>)>>, <<Lit(<<"h", "e", "y">>)>>,
    <<Lit(<<"g", "o", "o", "d", " ", "m", "o", "r", "n", "i", "n", "g">>)>>, <<Lit(<<"g", "o", "o", "d", " ", "a", "f", "t", "e", "r", "n", "o", "o", "n">>)>>, <<Lit(<<"g", "o", "o", "d", " ", "e", "v", "e", "n", "i", "n", "g">>)>> >>

HelpPatterns == <<
    <<Lit(<<"h", "e", "l", "p">>)>>,
    \* what.*can.*you.*do
    <<Lit(<<"w", "h", "a", "t">>), Rep("any", 0, 0), Lit(<<"c", "a", "n">>), Rep("any", 0, 0), Lit(<<"y", "o", "u">>), Rep("any", 0, 0), Lit(<<"d", "o">>)>>,
    <<Lit(<<"c", "o", "m", "m", "a", "n", "d", "s">>)>>, <<Lit(<<"a", "s", "s", "i", "s", "t", "a", "n", "c", "e">>)>> >>

\* the registry in dict insertion order
IntentPatternsReordered == <<
    [intent |-> "book_appointment", patterns |-> BookAppointmentPatterns],
    [intent |-> "view_appointments", patterns |-> ViewAppointmentsPatterns],
    [intent |-> "query_patient", patterns |-> QueryPatientPatterns],
    [intent |-> "view_patients", patterns |-> ViewPatientsPatterns],
    [intent |-> "greeting", patterns |-> GreetingPatterns],
    [intent |-> "help", patterns |-> HelpPatterns] >>
IntentPatterns == <<
    [intent |-> "book_appointment", patterns |-> BookAppointmentPatterns],
    [intent |-> "query_patient", patterns |-> QueryPatientPatterns],
    [intent |-> "view_appointments", patterns |-> ViewAppointmentsPatterns],
    [intent |-> "view_patients", patterns |-> ViewPatientsPatterns],
    [intent |-> "greeting", patterns |-> GreetingPatterns],
    [intent |-> "help", patterns |-> HelpPatterns] >>

(***************************************************************************)
(* Normalisation (CommandInterpreter._preprocess_command)                  *)
(***************************************************************************)
\* re.sub(r'\s+', ' ', s): every maximal run of whitespace becomes one space
CollapseWhitespace(s) ==
    LET first(i) == ~IsSpace(s[i]) \/ i = 1 \/ ~IsSpace(s[i - 1])
    IN Let(SelectSeq([i \in 1..Len(s) |-> i], first), LAMBDA kept :
           [k \in 1..Len(kept) |-> IF IsSpace(s[kept[k]]) THEN " " ELSE s[kept[k]]] \o <<>>)

\* the characters [^\w\s@.:,-] removes
IsKept(c) == IsWord(c) \/ IsSpace(c) \/ c \in {"@", ".", ":", ",", "-"}

\* re.sub(r'[^\w\s@.:,-]', '', s)
StripPunctuation(s) == SelectSeq(s, IsKept)

PreprocessCommand(command) == StripPunctuation(CollapseWhitespace(Strip(Lower(command))))

(***************************************************************************)
(* Entity extraction                                                       *)
(***************************************************************************)
\* a dict of entities: has_k says whether key k is present
NoEntities == [has_patient_name |-> FALSE, patient_name |-> <<>>,
               has_time |-> FALSE, time |-> <<>>,
               has_doctor |-> FALSE, doctor |-> <<>>]

TimePatterns == <<
    \* (\d+)\s*(?:am|pm|AM|PM)
    <<Open(1), Rep("digit", 1, 0), Close(1), Rep("space", 0, 0), Alt(<<<<Lit(<<"a", "m">>)>>, <<Lit(<<"p", "m">>)>>, <<Lit(<<"A", "M">>)>>, <<Lit(<<"P", "M">>)>>>>)>>,
    \* at\s+(\d+)
    <<Lit(<<"a", "t">>), Rep("space", 1, 0), Open(1), Rep("digit", 1, 0), Close(1)>>,
    \* (\d+:\d+)
    <<Open(1), Rep("digit", 1, 0), Lit(<<":">>), Rep("digit", 1, 0), Close(1)>>,
    \* (tomorrow|today|next\s+\w+)
    <<Open(1), Alt(<<<<Lit(<<"t", "o", "m", "o", "r", "r", "o", "w">>)>>, <<Lit(<<"t", "o", "d", "a", "y">>)>>, <<Lit(<<"n", "e", "x", "t">>), Rep("space", 1, 0), Rep("word", 1, 0)>>>>), Close(1)>>,
    \* (\d+\s*(?:am|pm|AM|PM))
    <<Open(1), Rep("digit", 1, 0), Rep("space", 0, 0), Alt(<<<<Lit(<<"a", "m">>)>>, <<Lit(<<"p", "m">>)>>, <<Lit(<<"A", "M">>)>>, <<Lit(<<"P", "M">>)>>>>), Close(1)>> >>

\* (?:with|doctor|dr\.?)\s+([a-zA-Z\s]+)
DoctorPattern == <<Alt(<<<<Lit(<<"w", "i", "t", "h">>)>>, <<Lit(<<"d", "o", "c", "t", "o", "r">>)>>, <<Lit(<<"d", "r">>), Rep("dot", 0, 1)>>>>), Rep("space", 1, 0), Open(1), Rep("alphaspace", 1, 0), Close(1)>>

DefaultDoctor == <<"D", "r", ".", " ", "S", "m", "i", "t", "h">>

\* the first time pattern that matches (0 if none): the loop with break
RECURSIVE FirstTimePattern(_, _)
FirstTimePattern(command, i) ==
    IF i > Len(TimePatterns) THEN 0
    ELSE IF Search(TimePatterns[i], command, FALSE).ok THEN i
    ELSE FirstTimePattern(command, i + 1)

\* the time token: group(1) of the first time pattern that matches
TimeToken(command, i) == Group1(command, Search(TimePatterns[i], command, FALSE))

ExtractAppointmentEntities(command, pat, match) ==
    Let(FirstTimePattern(command, 1), LAMBDA ti :
    Let(Search(DoctorPattern, command, FALSE), LAMBDA dm :
       [has_patient_name |-> HasGroups(pat),
        patient_name |-> IF HasGroups(pat) THEN Strip(Group1(command, match)) ELSE <<>>,
        has_time |-> ti # 0,
        time |-> IF ti # 0 THEN TimeToken(command, ti) ELSE <<>>,
        has_doctor |-> TRUE,
        doctor |-> IF dm.ok THEN Strip(Group1(command, dm)) ELSE DefaultDoctor]))

ExtractPatientEntities(command, pat, match) ==
    [NoEntities EXCEPT !.has_patient_name = HasGroups(pat),
                       !.patient_name = IF HasGroups(pat) THEN Strip(Group1(command, match)) ELSE <<>>]

(***************************************************************************)
(* Classification (CommandInterpreter._extract_intent_and_entities)        *)
(***************************************************************************)
\* a confidence is the float num / den, kept as the exact ratio
ZeroConfidence == [num |-> 0, den |-> 1]
ConfGreaterHalf(a, b) == a.num * b.den > b.num * a.den /\ 2 * a.num > a.den
ConfGreater(a, b) == a.num * b.den > b.num * a.den

\* the ratio taken the wrong way round: len(command) / len(match.group(0))
MatchConfidenceInverted(command, match) ==
    [num |-> Len(command), den |-> match.end - match.start]
\* confidence = len(match.group(0)) / len(command)
MatchConfidence(command, match) == [num |-> match.end - match.start, den |-> Len(command)]

\* the state of the two nested loops
ClassifyInitGreeting == [raised |-> FALSE, intent |-> "greeting", entities |-> NoEntities,
                         confidence |-> ZeroConfidence]
ClassifyInit == [raised |-> FALSE, intent |-> "unknown", entities |-> NoEntities,
                 confidence |-> ZeroConfidence]

\* one iteration of the inner loop: pattern p of intent i
ClassifyStep(acc, command, i, p) ==
    Let(IntentPatterns[i].intent, LAMBDA intent :
    Let(IntentPatterns[i].patterns[p], LAMBDA pat :
    Let(Search(pat, command, TRUE), LAMBDA match :
       IF acc.raised \/ ~match.ok THEN acc
       ELSE IF Len(command) = 0 THEN [acc EXCEPT !.raised = TRUE]  \* ZeroDivisionError
       ELSE IF ~ConfGreater(MatchConfidence(command, match), acc.confidence) THEN acc
       ELSE [raised |-> FALSE,
             intent |-> intent,
             confidence |-> MatchConfidence(command, match),
             entities |-> IF ~HasGroups(pat) THEN acc.entities
                          ELSE IF intent = "book_appointment"
                               THEN ExtractAppointmentEntities(command, pat, match)
                          ELSE IF intent = "query_patient"
                               THEN ExtractPatientEntities(command, pat, match)
                          ELSE acc.entities])))

\* the inner loop: the patterns of intent i from pattern p on; an exception
\* ends the loops
RECURSIVE PatternLoop(_, _, _, _)
PatternLoop(acc, command, i, p) ==
    IF p > Len(IntentPatterns[i].patterns) THEN acc
    ELSE Let(ClassifyStep(acc, command, i, p), LAMBDA next :
             IF next.raised THEN next ELSE PatternLoop(next, command, i, p + 1))

\* the outer loop: the intents from intent i on
RECURSIVE IntentLoop(_, _, _)
IntentLoop(acc, command, i) ==
    IF i > Len(IntentPatterns) THEN acc
    ELSE Let(PatternLoop(acc, command, i, 1), LAMBDA next :
             IF next.raised THEN next ELSE IntentLoop(next, command, i + 1))

\* returns (best_intent, entities, best_confidence), or raises
ExtractIntentAndEntities(command) == IntentLoop(ClassifyInit, command, 1)

(***************************************************************************)
(* datetime.  A datetime is a record; day is the ordinal of the date,      *)
(* day 1 being 2024-01-01, and the calendar covers 2023-12-02..2024-02-29. *)
(* aware = the datetime carries a UTC offset; offset = its whole hours     *)
(* east of UTC (0 for a naive datetime).                                   *)
(***************************************************************************)
DateTime(day, hour, minute, second, micro, aware) ==
    [day |-> day, hour |-> hour, minute |-> minute, second |-> second,
     micro |-> micro, aware |-> aware, offset |-> 0]

\* an aware datetime with the UTC offset +HH:00
DateTimeAt(day, hour, minute, second, micro, offset) ==
    [DateTime(day, hour, minute, second, micro, TRUE) EXCEPT !.offset = offset]

\* (year, month, day of month) of an ordinal
YMD(d) ==
    IF d <= 0 THEN [y |-> 2023, m |-> 12, d |-> d + 31]
    ELSE IF d <= 31 THEN [y |-> 2024, m |-> 1, d |-> d]
    ELSE [y |-> 2024, m |-> 2, d |-> d - 31]

\* the ordinal of a date of the calendar, 999 if the date is not in it
Ordinal(y, m, d) ==
    IF y = 2023 /\ m = 12 /\ d \in 2..31 THEN d - 31
    ELSE IF y = 2024 /\ m = 1 /\ d \in 1..31 THEN d
    ELSE IF y = 2024 /\ m = 2 /\ d \in 1..29 THEN d + 31
    ELSE 999

\* dt + timedelta(days=n)
AddDaysSameDay(dt, n) == dt
AddDays(dt, n) == [dt EXCEPT !.day = @ + n]
\* dt + timedelta(hours=n), n >= 0
AddHours(dt, n) ==
    [dt EXCEPT !.day = @ + ((dt.hour + n) \div 24), !.hour = (dt.hour + n) % 24]

\* the order of two datetimes of the same kind
DtKey(dt) == <<24 * dt.day + dt.hour - dt.offset, dt.minute, dt.second, dt.micro>>
TupleLess(a, b) ==
    \E i \in 1..Len(a) : a[i] < b[i] /\ \A j \in 1..(i - 1) : a[j] = b[j]
\* a > b raises TypeError when one is naive and the other aware
CompareRaises(a, b) == a.aware # b.aware
DtGreater(a, b) == TupleLess(DtKey(b), DtKey(a))

\* datetime.replace(hour=, minute=, second=0, microsecond=0): ValueError
\* when a field is out of range
ReplaceRaises(hour, minute) == ~(hour \in 0..23 /\ minute \in 0..59)
ReplaceKeepSeconds(dt, hour, minute) == [dt EXCEPT !.hour = hour, !.minute = minute]
Replace(dt, hour, minute) ==
    [dt EXCEPT !.hour = hour, !.minute = minute, !.second = 0, !.micro = 0]

\* %06d
Str6(n) ==
    Let(Str(n), LAMBDA s : [i \in 1..(6 - Len(s)) |-> "0"] \o s)

\* datetime.isoformat(sep): YYYY-MM-DDsepHH:MM:SS[.ffffff][+HH:00]
IsoFormat(dt, sep) ==
    Let(YMD(dt.day), LAMBDA ymd :
       Str(ymd.y) \o <<"-">> \o Str2(ymd.m) \o <<"-">> \o Str2(ymd.d) \o sep
       \o Str2(dt.hour) \o <<":">> \o Str2(dt.minute) \o <<":">> \o Str2(dt.second)
       \o (IF dt.micro # 0 THEN <<".">> \o Str6(dt.micro) ELSE <<>>)
       \o (IF dt.aware THEN <<"+">> \o Str2(dt.offset) \o <<":", "0", "0">> ELSE <<>>))

\* the sqlite3 adapter for datetime parameters: isoformat(" ")
AdaptDatetime(dt) == IsoFormat(dt, <<" ">>)

AllDigits(s) == \A i \in 1..Len(s) : IsDigit(s[i])

\* datetime.fromisoformat(text.replace('Z', '+00:00')) on the texts the
\* adapter writes; ok = FALSE stands for ValueError
FromIsoFormat(text0) ==
    Let(IF Len(text0) > 0 /\ text0[Len(text0)] = "Z"
        THEN SubSeq(text0, 1, Len(text0) - 1) \o <<"+", "0", "0", ":", "0", "0">> ELSE text0, LAMBDA text :
    LET bad == [ok |-> FALSE, dt |-> DateTime(0, 0, 0, 0, 0, FALSE)]
        field(a, b) == SubSeq(text, a, b)
        hasMicro == Len(text) >= 26 /\ text[20] = "."
        tzAt == IF hasMicro THEN 27 ELSE 20
        aware == /\ Len(text) = tzAt + 5
                 /\ text[tzAt] = "+"
                 /\ AllDigits(SubSeq(text, tzAt + 1, tzAt + 2))
                 /\ SubSeq(text, tzAt + 3, tzAt + 5) = <<":", "0", "0">>
        offset == IF aware THEN ParseInt(SubSeq(text, tzAt + 1, tzAt + 2)) ELSE 0
    IN IF Len(text) < 19 THEN bad
       ELSE IF ~(AllDigits(field(1, 4)) /\ text[5] = "-" /\ AllDigits(field(6, 7))
                 /\ text[8] = "-" /\ AllDigits(field(9, 10))
                 /\ AllDigits(field(12, 13)) /\ text[14] = ":"
                 /\ AllDigits(field(15, 16)) /\ text[17] = ":"
                 /\ AllDigits(field(18, 19))) THEN bad
       ELSE IF hasMicro /\ ~AllDigits(field(21, 26)) THEN bad
       ELSE IF ~aware /\ Len(text) # tzAt - 1 THEN bad
       ELSE Let(Ordinal(ParseInt(field(1, 4)), ParseInt(field(6, 7)),
                        ParseInt(field(9, 10))), LAMBDA day :
            Let(ParseInt(field(12, 13)), LAMBDA hour :
            Let(ParseInt(field(15, 16)), LAMBDA minute :
            Let(ParseInt(field(18, 19)), LAMBDA second :
               IF day = 999 \/ hour > 23 \/ minute > 59 \/ second > 59 \/ offset > 23
               THEN bad
               ELSE [ok |-> TRUE,
                     dt |-> [DateTime(day, hour, minute, second,
                                      IF hasMicro THEN ParseInt(field(21, 26)) ELSE 0,
                                      aware) EXCEPT !.offset = offset]])))))

\* strftime('%Y-%m-%d at %I:%M %p')
Strftime(dt) ==
    Let(YMD(dt.day), LAMBDA ymd :
    Let(IF dt.hour % 12 = 0 THEN 12 ELSE dt.hour % 12, LAMBDA h12 :
       Str(ymd.y) \o <<"-">> \o Str2(ymd.m) \o <<"-">> \o Str2(ymd.d) \o <<" ", "a", "t", " ">>
       \o Str2(h12) \o <<":">> \o Str2(dt.minute)
       \o (IF dt.hour < 12 THEN <<" ", "A", "M">> ELSE <<" ", "P", "M">>)))

\* the order of Python str and of SQLite TEXT: by code point
CharOrder == <<" ", "+", ",", "-", ".", "0", "1", "2", "3", "4", "5", "6", "7", "8", "9", ":", "A", "B", "C", "D", "E", "F", "G", "H", "I", "J", "K", "L", "M", "N", "O", "P", "Q", "R", "S", "T", "U", "V", "W", "X", "Y", "Z", "_", "a", "b", "c", "d", "e", "f", "g", "h", "i", "j", "k", "l", "m", "n", "o", "p", "q", "r", "s", "t", "u", "v", "w", "x", "y", "z">>
Code(c) == IF c \in Range(CharOrder) THEN IndexIn(CharOrder, c) ELSE 0
TextLess(a, b) ==
    \E i \in 1..(Len(b)) :
        /\ \A j \in 1..(i - 1) : j <= Len(a) /\ a[j] = b[j]
        /\ (i > Len(a) \/ (Len(a) >= i /\ Code(a[i]) < Code(b[i])))

(***************************************************************************)
(* dateutil.parser.parse(time_str), on the tokens the entity extractor can *)
(* produce.  The parser fills the fields it does not find from today at    *)
(* 00:00: a lone number of one to four digits is read as a day of the      *)
(* month (the clock of the model stays in January) or as a year, "H:MM" as *)
(* a time of day, "<n> am|pm" as an hour with its meridian; a word is not  *)
(* a date and a value out of range is an error.                            *)
(***************************************************************************)
DateParserParse(token) ==
    LET fail == [ok |-> FALSE, hour |-> 0, minute |-> 0]
    IN Let(Strip(token), LAMBDA s :
       Let(Lower(s), LAMBDA low :
       Let({i \in 1..Len(s) : s[i] = ":"}, LAMBDA colon :
       Let(Run("digit", s, 1, 0), LAMBDA nd :
       Let(Strip(SubSeq(low, nd + 1, Len(low))), LAMBDA suffix :
       IF Len(s) = 0 THEN fail
       ELSE IF AllDigits(s)
            THEN IF Len(s) <= 4 /\ ParseInt(s) >= 1
                 THEN [ok |-> TRUE, hour |-> 0, minute |-> 0]
                 ELSE fail
       ELSE IF Cardinality(colon) = 1 /\ nd \in 1..2 /\ nd + 1 \in colon
               /\ Len(s) - nd - 1 = 2 /\ AllDigits(SubSeq(s, nd + 2, Len(s)))
            THEN IF ParseInt(SubSeq(s, 1, nd)) < 24 /\ ParseInt(SubSeq(s, nd + 2, Len(s))) < 60
                 THEN [ok |-> TRUE, hour |-> ParseInt(SubSeq(s, 1, nd)),
                       minute |-> ParseInt(SubSeq(s, nd + 2, Len(s)))]
                 ELSE fail
       ELSE IF nd \in 1..2 /\ suffix \in {<<"a", "m">>, <<"p", "m">>}
            THEN Let(ParseInt(SubSeq(s, 1, nd)), LAMBDA h :
                    IF h < 24
                    THEN [ok |-> TRUE,
                          hour |-> IF suffix = <<"p", "m">> /\ h < 12 THEN h + 12
                                   ELSE IF suffix = <<"a", "m">> /\ h = 12 THEN 0
                                   ELSE h,
                          minute |-> 0]
                    ELSE fail)
       ELSE fail)))))

(***************************************************************************)
(* Time resolution (CommandInterpreter._parse_time); now = datetime.now()  *)
(***************************************************************************)
\* the relative day the command names
BaseDateNow(full_command, now) ==
    IF Contains(full_command, <<"t", "o", "m", "o", "r", "r", "o", "w">>) THEN AddDays(now, 1)
    ELSE IF Contains(full_command, <<"t", "o", "d", "a", "y">>) THEN now
    ELSE IF Contains(full_command, <<"n", "e", "x", "t", " ", "w", "e", "e", "k">>) THEN AddDays(now, 7)
    ELSE now
BaseDate(full_command, now) ==
    IF Contains(full_command, <<"t", "o", "m", "o", "r", "r", "o", "w">>) THEN AddDays(now, 1)
    ELSE IF Contains(full_command, <<"t", "o", "d", "a", "y">>) THEN now
    ELSE IF Contains(full_command, <<"n", "e", "x", "t", " ", "w", "e", "e", "k">>) THEN AddDays(now, 7)
    ELSE AddHours(now, 1)

\* the outer except (lines 426-429): one hour from now, fields kept
TimeParsingErrorNow(now) == now
TimeParsingError(now) == AddHours(now, 1)

ParseTime(time_str, full_command, now) ==
    Let(BaseDate(full_command, now), LAMBDA base_date :
    Let(DateParserParse(time_str), LAMBDA parsed :
    Let({i \in 1..Len(time_str) : IsDigit(time_str[i])}, LAMBDA nd :
    \* re.search(r'(\d+)', time_str): the first run of digits
    Let(IF nd = {} THEN 0 ELSE MinOf(nd), LAMBDA first :
    Let(IF nd = {} THEN 0
        ELSE ParseInt(SubSeq(time_str, first, first + Run("digit", time_str, first, 0) - 1)),
        LAMBDA hour0 :
    Let(Lower(time_str), LAMBDA low :
    Let(IF Contains(low, <<"p", "m">>) /\ hour0 < 12 THEN hour0 + 12
        ELSE IF Contains(low, <<"a", "m">>) /\ hour0 = 12 THEN 0
        ELSE hour0, LAMBDA hour :
       IF Len(time_str) > 0 /\ parsed.ok /\ ~ReplaceRaises(parsed.hour, parsed.minute)
       THEN Replace(base_date, parsed.hour, parsed.minute)
       \* the bare except: the first integer of the token is the hour
       ELSE IF Len(time_str) > 0 /\ nd # {}
       THEN IF ReplaceRaises(hour, 0) THEN TimeParsingError(now)
            ELSE Replace(base_date, hour, 0)
       ELSE [base_date EXCEPT !.minute = 0, !.second = 0, !.micro = 0])))))))

(***************************************************************************)
(* The store (database/db_manager.py).  A table is the sequence of its     *)
(* rows in rowid order.  The columns created_at and updated_at, which the  *)
(* database fills in and no code reads, and the patient columns email,     *)
(* date_of_birth and medical_history are left out.                         *)
(***************************************************************************)
VARIABLES now, patients, visits, appointments, voice_logs, ncalls, last,
          resolved, classified, interpreter, inflight, dbcalls

vars == <<now, patients, visits, appointments, voice_logs, ncalls, last,
          resolved, classified, interpreter, inflight, dbcalls>>

\* rows sorted by a column (a text) ascending, rows with equal keys in rowid order
SortedBy(rows, column) ==
    Let([i \in 1..Len(rows) |-> rows[i][column]] \o <<>>, LAMBDA keys :
    LET before(i, j) == TextLess(keys[i], keys[j]) \/ (keys[i] = keys[j] /\ i < j)
    IN Let([i \in 1..Len(rows) |->
               Cardinality({j \in 1..Len(rows) : before(j, i)}) + 1] \o <<>>, LAMBDA rank :
       [k \in 1..Len(rows) |-> rows[CHOOSE i \in 1..Len(rows) : rank[i] = k]] \o <<>>))

Reverse(s) == [i \in 1..Len(s) |-> s[Len(s) + 1 - i]] \o <<>>

\* name LIKE '%fragment%': a substring match that ignores the case of letters
Like(name, fragment) == Contains(Lower(name), Lower(fragment))


NewAppointmentFirstId(appts, patient_name, doctor_name, appointment_time, notes, status) ==
    [id |-> 1,
     patient_name |-> patient_name,
     doctor_name |-> doctor_name,
     appointment_time |-> AdaptDatetime(appointment_time),
     notes |-> notes,
     status |-> status]

\* DatabaseManager.create_appointment: the row INSERTed; its id is lastrowid
NewAppointment(appts, patient_name, doctor_name, appointment_time, notes, status) ==
    [id |-> Len(appts) + 1,
     patient_name |-> patient_name,
     doctor_name |-> doctor_name,
     appointment_time |-> AdaptDatetime(appointment_time),
     notes |-> notes,
     status |-> status]

CreateAppointment(appts, patient_name, doctor_name, appointment_time, notes) ==
    Append(appts, NewAppointment(appts, patient_name, doctor_name, appointment_time,
                                 notes, "scheduled"))

\* DatabaseManager.get_appointments: SELECT * ... ORDER BY appointment_time ASC
GetAppointments(appts) == SortedBy(appts, "appointment_time")

\* DatabaseManager.get_all_patients: SELECT * FROM patients ORDER BY name
GetAllPatients(pats) == SortedBy(pats, "name")

\* DatabaseManager.get_patient_info: the first patient whose name is LIKE
\* the fragment, with the visits (latest first, at most 5) and the upcoming
\* appointments of the names LIKE it; found = FALSE is the {"error": ...} dict
NotFoundErrorEmpty(patient_name) == <<>>
NotFoundError(patient_name) == <<"P", "a", "t", "i", "e", "n", "t", " ">> \o patient_name \o <<" ", "n", "o", "t", " ", "f", "o", "u", "n", "d">>

GetPatientInfo(pats, vis, appts, patient_name, t) ==
    LET mine(row) == Like(row.patient_name, patient_name)
        upcoming(row) == mine(row) /\ TextLess(AdaptDatetime(t), row.appointment_time)
    IN Let({i \in 1..Len(pats) : Like(pats[i].name, patient_name)}, LAMBDA hits :
       Let(Reverse(SortedBy(SelectSeq(vis, mine), "visit_date")), LAMBDA recent :
       IF hits = {}
       THEN [found |-> FALSE, error |-> NotFoundError(patient_name),
             patient |-> <<>>, recent_visits |-> <<>>, upcoming_appointments |-> <<>>]
       ELSE [found |-> TRUE, error |-> <<>>,
             patient |-> pats[MinOf(hits)],
             recent_visits |-> SubSeq(recent, 1, IF Len(recent) < 5 THEN Len(recent) ELSE 5),
             upcoming_appointments |-> SortedBy(SelectSeq(appts, upcoming), "appointment_time")]))

\* DatabaseManager.log_voice_interaction: the except clause logs the error
\* and returns, so the call raises only if LogPropagates says so
LogPropagatesReraised(ok) == ~ok
LogPropagates(ok) == FALSE

LogVoiceInteraction(logs, transcription, command_type, response, confidence, ok) ==
    IF ok
    THEN Append(logs, [transcription |-> transcription, command_type |-> command_type,
                       response |-> response, confidence |-> confidence])
    ELSE logs

\* DatabaseManager.populate_demo_data: `if cursor.fetchone()[0] > 0: return`
\* (lines 213-217)
AlreadyPopulatedNever(pats) == FALSE
AlreadyPopulated(pats) == Len(pats) > 0

DemoPatients == <<
    [id |-> 1, name |-> <<"A", "h", "m", "e", "d", " ", "R", "a", "z", "a">>, phone |-> <<"5", "5", "5", "-", "0", "1", "0", "1">>],
    [id |-> 2, name |-> <<"F", "a", "t", "i", "m", "a", " ", "A", "l", "i">>, phone |-> <<"5", "5", "5", "-", "0", "1", "0", "2">>],
    [id |-> 3, name |-> <<"O", "m", "a", "r", " ", "K", "h", "a", "n">>, phone |-> <<"5", "5", "5", "-", "0", "1", "0", "3">>],
    [id |-> 4, name |-> <<"Z", "a", "r", "a", " ", "A", "h", "m", "e", "d">>, phone |-> <<"5", "5", "5", "-", "0", "1", "0", "4">>],
    [id |-> 5, name |-> <<"H", "a", "s", "s", "a", "n", " ", "S", "h", "a", "h">>, phone |-> <<"5", "5", "5", "-", "0", "1", "0", "5">>] >>

DemoVisits(t) == <<
    [patient_name |-> <<"A", "h", "m", "e", "d", " ", "R", "a", "z", "a">>, doctor_name |-> <<"D", "r", ".", " ", "S", "m", "i", "t", "h">>,
     visit_date |-> AdaptDatetime(AddDays(t, -30)), diagnosis |-> <<"H", "y", "p", "e", "r", "t", "e", "n", "s", "i", "o", "n", " ", "c", "h", "e", "c", "k", "u", "p">>],
    [patient_name |-> <<"F", "a", "t", "i", "m", "a", " ", "A", "l", "i">>, doctor_name |-> <<"D", "r", ".", " ", "J", "o", "h", "n", "s", "o", "n">>,
     visit_date |-> AdaptDatetime(AddDays(t, -15)), diagnosis |-> <<"A", "s", "t", "h", "m", "a", " ", "f", "o", "l", "l", "o", "w", "-", "u", "p">>],
    [patient_name |-> <<"O", "m", "a", "r", " ", "K", "h", "a", "n">>, doctor_name |-> <<"D", "r", ".", " ", "B", "r", "o", "w", "n">>,
     visit_date |-> AdaptDatetime(AddDays(t, -7)), diagnosis |-> <<"B", "a", "c", "k", " ", "p", "a", "i", "n", " ", "e", "v", "a", "l", "u", "a", "t", "i", "o", "n">>] >>

DemoAppointments(appts, t) ==
    Let(Append(appts, NewAppointment(appts, <<"Z", "a", "r", "a", " ", "A", "h", "m", "e", "d">>, <<"D", "r", ".", " ", "W", "i", "l", "s", "o", "n">>,
                        AddHours(t, 2), <<"M", "i", "g", "r", "a", "i", "n", "e", " ", "c", "o", "n", "s", "u", "l", "t", "a", "t", "i", "o", "n">>, "scheduled")), LAMBDA a1 :
    Let(Append(a1, NewAppointment(a1, <<"H", "a", "s", "s", "a", "n", " ", "S", "h", "a", "h">>, <<"D", "r", ".", " ", "D", "a", "v", "i", "s">>,
                        AddDays(t, 1), <<"C", "h", "o", "l", "e", "s", "t", "e", "r", "o", "l", " ", "f", "o", "l", "l", "o", "w", "-", "u", "p">>, "scheduled")), LAMBDA a2 :
        Append(a2, NewAppointment(a2, <<"A", "h", "m", "e", "d", " ", "R", "a", "z", "a">>, <<"D", "r", ".", " ", "S", "m", "i", "t", "h">>,
                        AddDays(t, 3), <<"R", "e", "g", "u", "l", "a", "r", " ", "c", "h", "e", "c", "k", "u", "p">>, "scheduled"))))

(***************************************************************************)
(* Handlers: CommandInterpreter._process_intent and the _handle_ methods.  *)
(* A handler result is the dict {"response", "data"} together with what    *)
(* the handler did to the store: appointments is the table afterwards,     *)
(* collab the number of collaborator calls it made.  dbOk = FALSE is a     *)
(* collaborator call that raises (sqlite3 error re-raised by db_manager).  *)
(***************************************************************************)
EmptyBooking == [appointment_id |-> 0, patient_name |-> <<>>, doctor_name |-> <<>>,
                 appointment_time |-> <<>>]
EmptyPatient == [id |-> 0, name |-> <<>>, phone |-> <<>>]
EmptyInfo == [patient |-> EmptyPatient, recent_visits |-> <<>>, upcoming_appointments |-> <<>>]

\* data: None, a list of rows, the booking dict or the patient dict
NoneData == [kind |-> "none", rows |-> <<>>, booking |-> EmptyBooking, info |-> EmptyInfo]
ListData(rows) == [NoneData EXCEPT !.kind = "list", !.rows = rows]
BookingData(b) == [NoneData EXCEPT !.kind = "booking", !.booking = b]
InfoData(i) == [NoneData EXCEPT !.kind = "info", !.info = i]

HandlerResult(response, data, appts, collab) ==
    [response |-> response, data |-> data, appointments |-> appts, collab |-> collab]

\* the except clause of a handler: the fixed failure response, data None,
\* after the one collaborator call that raised
HandlerFailureRetried(response, appts) == HandlerResult(response, NoneData, appts, 2)
HandlerFailure(response, appts) == HandlerResult(response, NoneData, appts, 1)

\* entities.get(key, default)
GetEntity(has, value, default) == IF has THEN value ELSE default

\* the concatenation of a short list of texts
RECURSIVE Concat(_)
Concat(parts) == IF Len(parts) = 0 THEN <<>> ELSE Head(parts) \o Concat(Tail(parts))

\* `if not patient_name` (line 240)
NameMissingIgnored(patient_name) == FALSE
NameMissing(patient_name) == Len(patient_name) = 0

BookClarification == <<"I", " ", "n", "e", "e", "d", " ", "a", " ", "p", "a", "t", "i", "e", "n", "t", " ", "n", "a", "m", "e", " ", "t", "o", " ", "b", "o", "o", "k", " ", "a", "n", " ", "a", "p", "p", "o", "i", "n", "t", "m", "e", "n", "t", ".", " ", "P", "l", "e", "a", "s", "e", " ", "s", "p", "e", "c", "i", "f", "y", " ", "w", "h", "o", " ", "t", "h", "e", " ", "a", "p", "p", "o", "i", "n", "t", "m", "e", "n", "t", " ", "i", "s", " ", "f", "o", "r", ".">>
BookFailure == <<"S", "o", "r", "r", "y", ",", " ", "I", " ", "c", "o", "u", "l", "d", "n", "'", "t", " ", "b", "o", "o", "k", " ", "t", "h", "e", " ", "a", "p", "p", "o", "i", "n", "t", "m", "e", "n", "t", ".", " ", "P", "l", "e", "a", "s", "e", " ", "t", "r", "y", " ", "a", "g", "a", "i", "n", " ", "w", "i", "t", "h", " ", "m", "o", "r", "e", " ", "s", "p", "e", "c", "i", "f", "i", "c", " ", "d", "e", "t", "a", "i", "l", "s", ".">>

HandleBookAppointment(entities, command, t, appts, dbOk) ==
    Let(Title(GetEntity(entities.has_patient_name, entities.patient_name, <<>>)), LAMBDA patient_name :
    Let(GetEntity(entities.has_doctor, entities.doctor, DefaultDoctor), LAMBDA doctor_name :
    Let(GetEntity(entities.has_time, entities.time, <<>>), LAMBDA time_str :
    Let(ParseTime(time_str, command, t), LAMBDA appointment_time :
    Let(<<"B", "o", "o", "k", "e", "d", " ", "v", "i", "a", " ", "v", "o", "i", "c", "e", " ", "c", "o", "m", "m", "a", "n", "d", ":", " ">> \o command, LAMBDA notes :
    Let(CreateAppointment(appts, patient_name, doctor_name, appointment_time, notes), LAMBDA created :
    Let(created[Len(created)].id, LAMBDA appointment_id :
       IF NameMissing(patient_name)
       THEN HandlerResult(BookClarification, NoneData, appts, 0)
       ELSE IF ~dbOk
       THEN HandlerFailure(BookFailure, appts)
       ELSE HandlerResult(
                <<"A", "p", "p", "o", "i", "n", "t", "m", "e", "n", "t", " ", "b", "o", "o", "k", "e", "d", " ", "s", "u", "c", "c", "e", "s", "s", "f", "u", "l", "l", "y", " ", "f", "o", "r", " ">> \o patient_name \o <<" ", "w", "i", "t", "h", " ">>
                    \o doctor_name \o <<" ", "o", "n", " ">> \o Strftime(appointment_time)
                    \o <<".", " ", "A", "p", "p", "o", "i", "n", "t", "m", "e", "n", "t", " ", "I", "D", ":", " ">> \o Str(appointment_id),
                BookingData([appointment_id |-> appointment_id,
                             patient_name |-> patient_name,
                             doctor_name |-> doctor_name,
                             appointment_time |-> IsoFormat(appointment_time, <<"T">>)]),
                created, 1))))))))

\* `if not patient_name` (line 281)
QueryNameMissingIgnored(patient_name) == FALSE
QueryNameMissing(patient_name) == Len(patient_name) = 0

QueryClarification == <<"P", "l", "e", "a", "s", "e", " ", "s", "p", "e", "c", "i", "f", "y", " ", "w", "h", "i", "c", "h", " ", "p", "a", "t", "i", "e", "n", "t", " ", "y", "o", "u", "'", "d", " ", "l", "i", "k", "e", " ", "i", "n", "f", "o", "r", "m", "a", "t", "i", "o", "n", " ", "a", "b", "o", "u", "t", ".">>
QueryFailure == <<"S", "o", "r", "r", "y", ",", " ", "I", " ", "c", "o", "u", "l", "d", "n", "'", "t", " ", "r", "e", "t", "r", "i", "e", "v", "e", " ", "t", "h", "e", " ", "p", "a", "t", "i", "e", "n", "t", " ", "i", "n", "f", "o", "r", "m", "a", "t", "i", "o", "n", ".">>

HandleQueryPatient(entities, pats, vis, appts, t, dbOk) ==
    Let(Title(GetEntity(entities.has_patient_name, entities.patient_name, <<>>)), LAMBDA patient_name :
    Let(GetPatientInfo(pats, vis, appts, patient_name, t), LAMBDA patient_info :
    Let(patient_info.recent_visits[1], LAMBDA last_visit :
    Let(patient_info.upcoming_appointments[1], LAMBDA next_appointment :
    Let(<<"P", "a", "t", "i", "e", "n", "t", ":", " ">> \o patient_info.patient.name \o <<"\n">>
            \o (IF Len(patient_info.patient.phone) > 0
                THEN <<"P", "h", "o", "n", "e", ":", " ">> \o patient_info.patient.phone \o <<"\n">> ELSE <<>>)
            \o (IF Len(patient_info.recent_visits) > 0
                THEN <<"L", "a", "s", "t", " ", "v", "i", "s", "i", "t", ":", " ">> \o last_visit.visit_date \o <<" ", "w", "i", "t", "h", " ">>
                     \o last_visit.doctor_name \o <<"\n">>
                     \o (IF Len(last_visit.diagnosis) > 0
                         THEN <<"D", "i", "a", "g", "n", "o", "s", "i", "s", ":", " ">> \o last_visit.diagnosis \o <<"\n">> ELSE <<>>)
                ELSE <<>>)
            \o (IF Len(patient_info.upcoming_appointments) > 0
                THEN <<"N", "e", "x", "t", " ", "a", "p", "p", "o", "i", "n", "t", "m", "e", "n", "t", ":", " ">> \o next_appointment.appointment_time \o <<" ", "w", "i", "t", "h", " ">>
                     \o next_appointment.doctor_name
                ELSE <<>>), LAMBDA response :
       IF QueryNameMissing(patient_name)
       THEN HandlerResult(QueryClarification, NoneData, appts, 0)
       ELSE IF ~dbOk
       THEN HandlerFailure(QueryFailure, appts)
       ELSE IF ~patient_info.found
       THEN HandlerResult(patient_info.error, NoneData, appts, 1)
       ELSE HandlerResult(response,
                          InfoData([patient |-> patient_info.patient,
                                    recent_visits |-> patient_info.recent_visits,
                                    upcoming_appointments |-> patient_info.upcoming_appointments]),
                          appts, 1))))))

NoAppointments == <<"N", "o", " ", "a", "p", "p", "o", "i", "n", "t", "m", "e", "n", "t", "s", " ", "s", "c", "h", "e", "d", "u", "l", "e", "d", ".">>
ViewAppointmentsFailure == <<"S", "o", "r", "r", "y", ",", " ", "I", " ", "c", "o", "u", "l", "d", "n", "'", "t", " ", "r", "e", "t", "r", "i", "e", "v", "e", " ", "t", "h", "e", " ", "a", "p", "p", "o", "i", "n", "t", "m", "e", "n", "t", "s", ".">>

\* the line of one appointment in the listing
AppointmentLine(apt) ==
    <<"-", " ">> \o apt.patient_name \o <<" ", "w", "i", "t", "h", " ">> \o apt.doctor_name \o <<" ", "o", "n", " ">>
    \o Strftime(FromIsoFormat(apt.appointment_time).dt) \o <<"\n">>

HandleViewAppointments(appts, t, dbOk) ==
    Let(GetAppointments(appts), LAMBDA all :
    Let([i \in 1..Len(all) |-> FromIsoFormat(all[i].appointment_time)] \o <<>>, LAMBDA times :
    \* fromisoformat raises ValueError, the comparison with now TypeError
    LET raises(i) == ~times[i].ok \/ CompareRaises(times[i].dt, t)
        isUpcoming(i) == DtGreater(times[i].dt, t)
    IN
    Let(SelectSeq([i \in 1..Len(all) |-> i], isUpcoming), LAMBDA kept :
    Let([k \in 1..Len(kept) |-> all[kept[k]]] \o <<>>, LAMBDA upcoming :
    Let(SubSeq(upcoming, 1, IF Len(upcoming) < 5 THEN Len(upcoming) ELSE 5), LAMBDA shown :
       IF ~dbOk
       THEN HandlerFailure(ViewAppointmentsFailure, appts)
       ELSE IF Len(all) = 0
       THEN HandlerResult(NoAppointments, ListData(<<>>), appts, 1)
       ELSE IF \E i \in 1..Len(all) : raises(i)
       THEN HandlerFailure(ViewAppointmentsFailure, appts)
       ELSE HandlerResult(
                <<"Y", "o", "u", " ", "h", "a", "v", "e", " ">> \o Str(Len(upcoming)) \o <<" ", "u", "p", "c", "o", "m", "i", "n", "g", " ", "a", "p", "p", "o", "i", "n", "t", "m", "e", "n", "t", "s", ":", "\n">>
                    \o Concat([i \in 1..Len(shown) |-> AppointmentLine(shown[i])]),
                ListData(upcoming), appts, 1))))))

NoPatients == <<"N", "o", " ", "p", "a", "t", "i", "e", "n", "t", "s", " ", "i", "n", " ", "t", "h", "e", " ", "d", "a", "t", "a", "b", "a", "s", "e", ".">>
ViewPatientsFailure == <<"S", "o", "r", "r", "y", ",", " ", "I", " ", "c", "o", "u", "l", "d", "n", "'", "t", " ", "r", "e", "t", "r", "i", "e", "v", "e", " ", "t", "h", "e", " ", "p", "a", "t", "i", "e", "n", "t", " ", "l", "i", "s", "t", ".">>

PatientLine(patient) ==
    <<"-", " ">> \o patient.name
    \o (IF Len(patient.phone) > 0 THEN <<" ", "(">> \o patient.phone \o <<")">> ELSE <<>>) \o <<"\n">>

HandleViewPatients(pats, appts, dbOk) ==
    Let(GetAllPatients(pats), LAMBDA all :
    Let(SubSeq(all, 1, IF Len(all) < 10 THEN Len(all) ELSE 10), LAMBDA shown :
       IF ~dbOk
       THEN HandlerFailure(ViewPatientsFailure, appts)
       ELSE IF Len(all) = 0
       THEN HandlerResult(NoPatients, ListData(<<>>), appts, 1)
       ELSE HandlerResult(
                <<"Y", "o", "u", " ", "h", "a", "v", "e", " ">> \o Str(Len(all)) \o <<" ", "p", "a", "t", "i", "e", "n", "t", "s", " ", "r", "e", "g", "i", "s", "t", "e", "r", "e", "d", ":", "\n">>
                    \o Concat([i \in 1..Len(shown) |-> PatientLine(shown[i])]),
                ListData(all), appts, 1)))

GreetingResponseAnonymous == <<"H", "e", "l", "l", "o", "!", " ", "H", "o", "w", " ", "c", "a", "n", " ", "I", " ", "h", "e", "l", "p", " ", "y", "o", "u", " ", "t", "o", "d", "a", "y", "?">>
GreetingResponse == <<"H", "e", "l", "l", "o", "!", " ", "I", "'", "m", " ", "A", "s", "s", "i", "s", "t", "X", ",", " ", "y", "o", "u", "r", " ", "m", "e", "d", "i", "c", "a", "l", " ", "a", "s", "s", "i", "s", "t", "a", "n", "t", ".", " ", "H", "o", "w", " ", "c", "a", "n", " ", "I", " ", "h", "e", "l", "p", " ", "y", "o", "u", " ", "t", "o", "d", "a", "y", "?">>
UnknownResponse == <<"I", "'", "m", " ", "s", "o", "r", "r", "y", ",", " ", "I", " ", "d", "i", "d", "n", "'", "t", " ", "u", "n", "d", "e", "r", "s", "t", "a", "n", "d", " ", "t", "h", "a", "t", " ", "c", "o", "m", "m", "a", "n", "d", ".", " ", "T", "r", "y", " ", "a", "s", "k", "i", "n", "g", " ", "m", "e", " ", "t", "o", " ", "b", "o", "o", "k", " ", "a", "n", " ", "a", "p", "p", "o", "i", "n", "t", "m", "e", "n", "t", ",", " ", "s", "h", "o", "w", " ", "p", "a", "t", "i", "e", "n", "t", " ", "i", "n", "f", "o", "r", "m", "a", "t", "i", "o", "n", ",", " ", "o", "r", " ", "l", "i", "s", "t", " ", "a", "p", "p", "o", "i", "n", "t", "m", "e", "n", "t", "s", ".">>
\* CommandInterpreter._get_help_message
HelpMessage == <<"I", " ", "c", "a", "n", " ", "h", "e", "l", "p", " ", "y", "o", "u", " ", "w", "i", "t", "h", " ", "t", "h", "e", " ", "f", "o", "l", "l", "o", "w", "i", "n", "g", " ", "c", "o", "m", "m", "a", "n", "d", "s", ":", "\n", "\n", "1", ".", " ", "B", "o", "o", "k", " ", "a", "p", "p", "o", "i", "n", "t", "m", "e", "n", "t", "s", ":", " ", "\"", "B", "o", "o", "k", " ", "a", "n", " ", "a", "p", "p", "o", "i", "n", "t", "m", "e", "n", "t", " ", "f", "o", "r", " ", "J", "o", "h", "n", " ", "D", "o", "e", " ", "a", "t", " ", "3", " ", "P", "M", " ", "t", "o", "m", "o", "r", "r", "o", "w", "\"", "\n", "2", ".", " ", "Q", "u", "e", "r", "y", " ", "p", "a", "t", "i", "e", "n", "t", "s", ":", " ", "\"", "S", "h", "o", "w", " ", "l", "a", "s", "t", " ", "v", "i", "s", "i", "t", " ", "f", "o", "r", " ", "A", "h", "m", "e", "d", " ", "R", "a", "z", "a", "\"", "\n", "3", ".", " ", "V", "i", "e", "w", " ", "a", "p", "p", "o", "i", "n", "t", "m", "e", "n", "t", "s", ":", " ", "\"", "S", "h", "o", "w", " ", "t", "o", "d", "a", "y", "'", "s", " ", "a", "p", "p", "o", "i", "n", "t", "m", "e", "n", "t", "s", "\"", " ", " ", "\n", "4", ".", " ", "V", "i", "e", "w", " ", "p", "a", "t", "i", "e", "n", "t", "s", ":", " ", "\"", "L", "i", "s", "t", " ", "a", "l", "l", " ", "p", "a", "t", "i", "e", "n", "t", "s", "\"", "\n", "\n", "Y", "o", "u", " ", "c", "a", "n", " ", "s", "p", "e", "a", "k", " ", "n", "a", "t", "u", "r", "a", "l", "l", "y", ",", " ", "a", "n", "d", " ", "I", "'", "l", "l", " ", "u", "n", "d", "e", "r", "s", "t", "a", "n", "d", " ", "y", "o", "u", "r", " ", "r", "e", "q", "u", "e", "s", "t", "s", "!">>

ProcessIntentGreetingBooks(intent, entities, command, t, pats, vis, appts, dbOk) ==
    IF intent = "book_appointment"
    THEN HandleBookAppointment(entities, command, t, appts, dbOk)
    ELSE IF intent = "query_patient"
    THEN HandleQueryPatient(entities, pats, vis, appts, t, dbOk)
    ELSE IF intent = "view_appointments"
    THEN HandleViewAppointments(appts, t, dbOk)
    ELSE IF intent = "view_patients"
    THEN HandleViewPatients(pats, appts, dbOk)
    ELSE IF intent = "greeting"
    THEN HandlerResult(GreetingResponse, NoneData,
                       CreateAppointment(appts, <<>>, DefaultDoctor, t, <<>>), 0)
    ELSE IF intent = "help"
    THEN HandlerResult(HelpMessage, NoneData, appts, 0)
    ELSE HandlerResult(UnknownResponse, NoneData, appts, 0)

ProcessIntent(intent, entities, command, t, pats, vis, appts, dbOk) ==
    IF intent = "book_appointment"
    THEN HandleBookAppointment(entities, command, t, appts, dbOk)
    ELSE IF intent = "query_patient"
    THEN HandleQueryPatient(entities, pats, vis, appts, t, dbOk)
    ELSE IF intent = "view_appointments"
    THEN HandleViewAppointments(appts, t, dbOk)
    ELSE IF intent = "view_patients"
    THEN HandleViewPatients(pats, appts, dbOk)
    ELSE IF intent = "greeting"
    THEN HandlerResult(GreetingResponse, NoneData, appts, 0)
    ELSE IF intent = "help"
    THEN HandlerResult(HelpMessage, NoneData, appts, 0)
    ELSE HandlerResult(UnknownResponse, NoneData, appts, 0)

(***************************************************************************)
(* CommandInterpreter.interpret                                            *)
(***************************************************************************)
\* what interpret is called with: a str, or None (a value that is no str)
Cmd(text) == [none |-> FALSE, text |-> text]
NoneCommand == [none |-> TRUE, text |-> <<>>]

\* str(e) of the exceptions that can reach the outer except clause
AttributeErrorText == <<"'", "N", "o", "n", "e", "T", "y", "p", "e", "'", " ", "o", "b", "j", "e", "c", "t", " ", "h", "a", "s", " ", "n", "o", " ", "a", "t", "t", "r", "i", "b", "u", "t", "e", " ", "'", "l", "o", "w", "e", "r", "'">>
ZeroDivisionText == <<"d", "i", "v", "i", "s", "i", "o", "n", " ", "b", "y", " ", "z", "e", "r", "o">>
DbErrorText == <<"d", "a", "t", "a", "b", "a", "s", "e", " ", "i", "s", " ", "l", "o", "c", "k", "e", "d">>

\* lines 87-90: normalisation and classification; failed = an exception left them
Front(cmd) ==
    Let(PreprocessCommand(cmd.text), LAMBDA cleaned :
    Let(ExtractIntentAndEntities(cleaned), LAMBDA cls :
    LET failure(text) == [failed |-> TRUE, error |-> text, cleaned |-> <<>>,
                          intent |-> "unknown", entities |-> NoEntities,
                          confidence |-> ZeroConfidence]
    IN IF cmd.none THEN failure(AttributeErrorText)
       ELSE IF cls.raised THEN failure(ZeroDivisionText)
       ELSE [failed |-> FALSE, error |-> <<>>, cleaned |-> cleaned,
             intent |-> cls.intent, entities |-> cls.entities,
             confidence |-> cls.confidence]))

\* what the caller gets: the returned dict, or raised = TRUE for an exception
Outcome(intent, response, data, confidence) ==
    [raised |-> FALSE, intent |-> intent, response |-> response, data |-> data,
     confidence |-> confidence]

\* the outer except clause (lines 110-117)
ErrorOutcomeReraised(error) ==
    [raised |-> TRUE, intent |-> "error", response |-> error, data |-> NoneData,
     confidence |-> ZeroConfidence]
ErrorOutcome(error) ==
    Outcome("error", <<"S", "o", "r", "r", "y", ",", " ", "I", " ", "c", "o", "u", "l", "d", "n", "'", "t", " ", "u", "n", "d", "e", "r", "s", "t", "a", "n", "d", " ", "t", "h", "a", "t", " ", "c", "o", "m", "m", "a", "n", "d", ".", " ", "E", "r", "r", "o", "r", ":", " ">> \o error,
            NoneData, ZeroConfidence)

\* the arguments of a call of the Interaction Logger
LogArgs(transcription, command_type, response, confidence) ==
    [transcription |-> transcription, command_type |-> command_type,
     response |-> response, confidence |-> confidence]

\* the transcription the interaction is logged with (line 97): the raw command
LoggedTranscriptionCleaned(cmd, front) == front.cleaned
LoggedTranscription(cmd, front) == cmd.text

\* what a call of interpret did, as recorded for the caller's side:
\* result is the handler's dict, collab the number of collaborator calls the
\* handler made, created the number of appointments it added, logCalls the
\* calls of the Interaction Logger with their arguments
NoResult == [response |-> <<>>, data |-> NoneData]

\* one call of interpret on the store (pats, vis, appts, logs) at time t;
\* front = Front(cmd)
InterpretCall(cmd, front, t, pats, vis, appts, logs, dbOk, logOk) ==
    Let(ProcessIntent(front.intent, front.entities, front.cleaned,
                                 t, pats, vis, appts, dbOk), LAMBDA handled :
    Let([response |-> handled.response, data |-> handled.data], LAMBDA result :
    Let(LogArgs(LoggedTranscription(cmd, front), front.intent, result.response,
                        front.confidence), LAMBDA args :
    Let(LogVoiceInteraction(logs, args.transcription, args.command_type,
                                      args.response, args.confidence, logOk), LAMBDA logged :
    Let(Len(handled.appointments) - Len(appts), LAMBDA created :
       IF front.failed
       THEN [outcome |-> ErrorOutcome(front.error), handled |-> FALSE,
             result |-> NoResult, collab |-> 0, created |-> 0,
             logCalls |-> <<>>, appointments |-> appts, voice_logs |-> logs]
       ELSE IF ~logOk /\ LogPropagates(logOk)
       THEN [outcome |-> ErrorOutcome(DbErrorText), handled |-> TRUE,
             result |-> result, collab |-> handled.collab, created |-> created,
             logCalls |-> <<args>>, appointments |-> handled.appointments,
             voice_logs |-> logs]
       ELSE [outcome |-> Outcome(front.intent, result.response, result.data,
                                 front.confidence),
             handled |-> TRUE, result |-> result, collab |-> handled.collab,
             created |-> created,
             logCalls |-> <<args>>, appointments |-> handled.appointments,
             voice_logs |-> logged])))))

(***************************************************************************)
(* The commands interpret is called with, and their normalisation and      *)
(* classification, computed once                                           *)
(***************************************************************************)
Commands == <<
    Cmd(<<"B", "o", "o", "k", " ", "a", "n", " ", "a", "p", "p", "o", "i", "n", "t", "m", "e", "n", "t", " ", "f", "o", "r", " ", "J", "o", "h", "n", " ", "D", "o", "e", " ", "a", "t", " ", "3", " ", "P", "M", " ", "t", "o", "m", "o", "r", "r", "o", "w">>),
    Cmd(<<"b", "o", "o", "k", " ", "a", "p", "p", "o", "i", "n", "t", "m", "e", "n", "t", " ", "f", "o", "r", " ", "t", "e", "s", "t", " ", "p", "a", "t", "i", "e", "n", "t">>),
    Cmd(<<"B", "o", "o", "k", " ", "a", "p", "p", "o", "i", "n", "t", "m", "e", "n", "t", " ", "f", "o", "r", " ", "B", "o", "b", " ", "a", "t", " ", "1", "0", ":", "3", "0", " ", "t", "o", "d", "a", "y">>),
    Cmd(<<"H", "e", "l", "l", "o">>),
    Cmd(<<>>),
    Cmd(<<"S", "h", "o", "w", " ", "a", "p", "p", "o", "i", "n", "t", "m", "e", "n", "t", "s">>),
    Cmd(<<"S", "h", "o", "w", " ", "l", "a", "s", "t", " ", "v", "i", "s", "i", "t", " ", "f", "o", "r", " ", "A", "h", "m", "e", "d", " ", "R", "a", "z", "a">>),
    Cmd(<<"S", "h", "o", "w", " ", "l", "a", "s", "t", " ", "v", "i", "s", "i", "t", " ", "f", "o", "r", " ", "B", "o", "b">>),
    Cmd(<<"L", "i", "s", "t", " ", "a", "l", "l", " ", "p", "a", "t", "i", "e", "n", "t", "s">>),
    Cmd(<<"h", "e", "l", "p">>),
    Cmd(<<"x", "y", "z", " ", "r", "a", "n", "d", "o", "m", " ", "c", "o", "m", "m", "a", "n", "d", " ", "a", "b", "c">>),
    NoneCommand,
    Cmd(<<"B", "o", "o", "k", " ", "a", "p", "p", "o", "i", "n", "t", "m", "e", "n", "t", " ", "f", "o", "r", " ", "T", "e", "s", "t", " ", "P", "a", "t", "i", "e", "n", "t", " ", "a", "t", " ", "5", " ", "P", "M", " ", "t", "o", "m", "o", "r", "r", "o", "w">>),
    Cmd(<<" ", " ", "H", "e", "l", "l", "o", "!", "!", "!", " ", " ">>),
    Cmd(<<" ", " ", " ">>),
    Cmd(<<"g", "e", "t", " ", "p", "a", "t", "i", "e", "n", "t", " ", "1", "2">>),
    Cmd(<<"B", "o", "o", "k", " ", "a", "p", "p", "o", "i", "n", "t", "m", "e", "n", "t", " ", "f", "o", "r", " ", "B", "o", "b", " ", "9", "9", ":", "9", "9">>),
    Cmd(<<"p", "a", "t", "i", "e", "n", "t", " ", "h", "i", "s", "t", "o", "r", "y">>),
    Cmd(<<"W", "h", "a", "t", " ", "c", "a", "n", " ", "f", "i", "n", "d", " ", "p", "a", "t", "i", "e", "n", "t", " ", "y", "o", "u", " ", "d", "o", "?">>),
    Cmd(<<"S", "h", "o", "w", " ", "h", "i", "s", "t", "o", "r", "y", " ", "f", "o", "r", " ", "a", "p", "p", "o", "i", "n", "t", "m", "e", "n", "t", "s">>),
    Cmd(<<"H", "e", "l", "l", "o", " ", "!", " ", "t", "h", "e", "r", "e">>) >>

Fronts == [k \in 1..Len(Commands) |-> Front(Commands[k])] \o <<>>

\* the registry patterns that re.search finds in a text (lines 139-142)
Matching(command) ==
    {ip \in UNION {{<<i, p>> : p \in 1..Len(IntentPatterns[i].patterns)} :
                      i \in 1..Len(IntentPatterns)} :
        Search(IntentPatterns[ip[1]].patterns[ip[2]], command, TRUE).ok}
Matches == [k \in 1..Len(Commands) |-> Matching(Fronts[k].cleaned)] \o <<>>
\* the confidence of each of these matches (line 143)
Confidences ==
    [k \in 1..Len(Commands) |->
        [ip \in Matches[k] |->
            MatchConfidence(Fronts[k].cleaned,
                            Search(IntentPatterns[ip[1]].patterns[ip[2]],
                                   Fronts[k].cleaned, TRUE))]] \o <<>>

(***************************************************************************)
(* Bounds and inputs of the model                                          *)
(***************************************************************************)
\* calls of interpret in one behaviour
MaxCalls == 1
\* appointments created through POST /api/appointments/create
MaxApi == 2
\* direct calls of _extract_intent_and_entities on one interpreter
MaxClassify == 3
\* calls of interpret in flight at once on one interpreter
MaxInflight == 2
\* direct calls of DatabaseManager.create_appointment and of populate_demo_data
MaxCreate == 2
MaxPopulate == 2

\* the values datetime.now() takes, in order
NowValues == <<DateTime(1, 10, 0, 0, 0, FALSE), DateTime(1, 23, 30, 15, 500000, FALSE),
               DateTime(31, 23, 59, 59, 999999, FALSE)>>

\* the arguments of the direct calls of _parse_time: time tokens and
\* normalised commands
TimeTokens == {<<"3", " ", "P", "M">>, <<"3", " ", "p", "m">>, <<"1", "0", ":", "3", "0">>, <<"1", "2", " ", "a", "m">>, <<"5">>, <<>>, <<"s", "o", "o", "n">>, <<"t", "o", "m", "o", "r", "r", "o", "w">>, <<"9", "9", ":", "9", "9">>, <<"3", "0", " ", "p", "m">>}
TimeTexts == {<<"b", "o", "o", "k", " ", "a", "p", "p", "o", "i", "n", "t", "m", "e", "n", "t", " ", "f", "o", "r", " ", "b", "o", "b", " ", "t", "o", "m", "o", "r", "r", "o", "w">>, <<"b", "o", "o", "k", " ", "a", "p", "p", "o", "i", "n", "t", "m", "e", "n", "t", " ", "f", "o", "r", " ", "b", "o", "b", " ", "t", "o", "d", "a", "y">>,
              <<"b", "o", "o", "k", " ", "a", "p", "p", "o", "i", "n", "t", "m", "e", "n", "t", " ", "f", "o", "r", " ", "b", "o", "b", " ", "n", "e", "x", "t", " ", "w", "e", "e", "k">>, <<"b", "o", "o", "k", " ", "a", "p", "p", "o", "i", "n", "t", "m", "e", "n", "t", " ", "f", "o", "r", " ", "b", "o", "b">>,
              <<"b", "o", "o", "k", " ", "a", "p", "p", "o", "i", "n", "t", "m", "e", "n", "t", " ", "t", "o", "d", "a", "y", " ", "o", "r", " ", "t", "o", "m", "o", "r", "r", "o", "w">>,
              <<"b", "o", "o", "k", " ", "a", "p", "p", "o", "i", "n", "t", "m", "e", "n", "t", " ", "n", "e", "x", "t", " ", "w", "e", "e", "k", " ", "n", "o", "t", " ", "t", "o", "d", "a", "y">>}

\* the normalised texts of the direct calls of _extract_intent_and_entities
ClassifyTexts == {<<"h", "e", "l", "l", "o">>, <<"b", "o", "o", "k", " ", "a", "p", "p", "o", "i", "n", "t", "m", "e", "n", "t", " ", "f", "o", "r", " ", "t", "e", "s", "t", " ", "p", "a", "t", "i", "e", "n", "t">>,
                  <<"s", "h", "o", "w", " ", "l", "a", "s", "t", " ", "v", "i", "s", "i", "t", " ", "f", "o", "r", " ", "a", "h", "m", "e", "d", " ", "r", "a", "z", "a">>, <<>>, <<"x", "y", "z", " ", "r", "a", "n", "d", "o", "m", " ", "c", "o", "m", "m", "a", "n", "d", " ", "a", "b", "c">>,
                  <<"p", "a", "t", "i", "e", "n", "t", " ", "h", "i", "s", "t", "o", "r", "y">>}
Classifications == [command \in ClassifyTexts |-> ExtractIntentAndEntities(command)]

\* the arguments of the direct calls of create_appointment: the names the
\* tests use, naive times and times with a UTC offset
StoreNames == {<<"T", "e", "s", "t", " ", "P", "a", "t", "i", "e", "n", "t">>, <<"T", "i", "m", "e", " ", "T", "e", "s", "t", " ", "P", "a", "t", "i", "e", "n", "t">>}
StoreTimes == {DateTime(2, 9, 0, 0, 0, FALSE), DateTime(2, 9, 0, 0, 5, FALSE),
               DateTime(1, 13, 0, 0, 0, FALSE),
               DateTimeAt(2, 11, 0, 0, 0, 0), DateTimeAt(2, 12, 0, 0, 0, 5)}

\* the appointment_time of the requests to POST /api/appointments/create;
\* an ISO time with the suffix Z is an aware datetime
ApiTimes == {DateTime(1, 9, 0, 0, 0, FALSE), DateTime(2, 12, 0, 0, 0, TRUE)}

(***************************************************************************)
(* The state machine                                                       *)
(***************************************************************************)
\* last: the most recent call of interpret.  dbFailed: the handler's
\* collaborator call raised; logFailed: the logger's INSERT failed
NoCall == [called |-> FALSE, command |-> NoneCommand, front |-> Front(NoneCommand),
           at |-> NowValues[1], dbFailed |-> FALSE, logFailed |-> FALSE,
           handled |-> FALSE, result |-> NoResult, collab |-> 0, created |-> 0,
           logCalls |-> <<>>, outcome |-> ErrorOutcome(<<>>)]

\* resolved: the most recent direct call of _parse_time, at the clock value
\* it read
NoResolve == [called |-> FALSE, time_str |-> <<>>, full_command |-> <<>>,
              at |-> NowValues[1], result |-> NowValues[1]]

\* the fields CommandInterpreter.__init__ sets (lines 13-15, 30-31)
NewInterpreter == [db_manager |-> "db_manager", intent_patterns |-> IntentPatterns,
                   stop_words |-> "stopwords.words('english')",
                   lemmatizer |-> "WordNetLemmatizer()"]

\* inflight[c]: a coroutine running interpret; pc is the await it is
\* suspended at, k its command, front and result its local variables
NotStarted == [pc |-> "idle", k |-> 0, front |-> Front(NoneCommand), result |-> NoResult,
               outcome |-> ErrorOutcome(<<>>), new_ids |-> {}]

Init ==
    /\ now = NowValues[1]
    /\ patients = <<>>
    /\ visits = <<>>
    /\ appointments = <<>>
    /\ voice_logs = <<>>
    /\ ncalls = 0
    /\ last = NoCall
    /\ resolved = NoResolve
    /\ classified = <<>>
    /\ interpreter = NewInterpreter
    /\ inflight = [c \in 1..MaxInflight |-> NotStarted]
    /\ dbcalls = [creates |-> <<>>, populates |-> 0]

\* time passes
Tick ==
    /\ \E i \in 1..Len(NowValues) : DtGreater(NowValues[i], now) /\ now' = NowValues[i]
    /\ UNCHANGED <<patients, visits, appointments, voice_logs, ncalls, last, resolved,
                   classified, interpreter, inflight, dbcalls>>

\* startup_event / the test fixtures: DatabaseManager.populate_demo_data
PopulateDemoData ==
    /\ Len(patients) = 0
    /\ patients' = DemoPatients
    /\ visits' = visits \o DemoVisits(now)
    /\ appointments' = DemoAppointments(appointments, now)
    /\ UNCHANGED <<now, voice_logs, ncalls, last, resolved, classified,
                   interpreter, inflight, dbcalls>>

\* POST /api/appointments/create (main.create_appointment)
CreateAppointmentApi ==
    /\ Cardinality({i \in 1..Len(appointments) : appointments[i].notes = <<"T", "e", "s", "t", " ", "a", "p", "p", "o", "i", "n", "t", "m", "e", "n", "t">>}) < MaxApi
    /\ \E t \in ApiTimes :
          appointments' = CreateAppointment(appointments, <<"T", "e", "s", "t", " ", "P", "a", "t", "i", "e", "n", "t">>, <<"D", "r", ".", " ", "T", "e", "s", "t">>, t,
                                            <<"T", "e", "s", "t", " ", "a", "p", "p", "o", "i", "n", "t", "m", "e", "n", "t">>)
    /\ UNCHANGED <<now, patients, visits, voice_logs, ncalls, last, resolved, classified,
                   interpreter, inflight, dbcalls>>

\* POST /api/voice/process-command: one call of interpret, with one of the
\* commands K
Interpret(K) ==
    /\ ncalls < MaxCalls
    /\ \E k \in K, dbOk \in BOOLEAN, logOk \in BOOLEAN :
          \E r \in {InterpretCall(Commands[k], Fronts[k], now, patients, visits,
                                   appointments, voice_logs, dbOk, logOk)} :
             /\ appointments' = r.appointments
             /\ voice_logs' = r.voice_logs
             /\ last' = [called |-> TRUE, command |-> Commands[k], front |-> Fronts[k],
                         at |-> now,
                         dbFailed |-> ~dbOk /\ r.collab > 0,
                         logFailed |-> ~logOk /\ Len(r.logCalls) > 0,
                         handled |-> r.handled, result |-> r.result,
                         collab |-> r.collab, created |-> r.created,
                         logCalls |-> r.logCalls, outcome |-> r.outcome]
    /\ ncalls' = ncalls + 1
    /\ UNCHANGED <<now, patients, visits, resolved, classified, interpreter, inflight, dbcalls>>

\* one call of _parse_time(time_str, full_command); datetime.now() is read
\* inside the function (line 387)
ParseTimeCall ==
    /\ \E time_str \in TimeTokens, full_command \in TimeTexts :
          resolved' = [called |-> TRUE, time_str |-> time_str,
                       full_command |-> full_command, at |-> now,
                       result |-> ParseTime(time_str, full_command, now)]
    /\ UNCHANGED <<now, patients, visits, appointments, voice_logs, ncalls, last,
                   classified, interpreter, inflight, dbcalls>>

\* what a call of _extract_intent_and_entities returns after the earlier
\* calls on the same interpreter: best_intent, best_confidence and entities
\* are locals set at lines 134-136 and the registry is only read, so
\* nothing of the earlier calls is kept
ClassifyCallCarried(command, earlier) ==
    IF earlier # <<>> /\ Classifications[command].entities = NoEntities
    THEN [Classifications[command] EXCEPT !.entities = earlier[Len(earlier)].result.entities]
    ELSE Classifications[command]
ClassifyCall(command, earlier) == Classifications[command]

\* one direct call of _extract_intent_and_entities, appended to the calls made
ClassifyAny ==
    /\ Len(classified) < MaxClassify
    /\ \E command \in ClassifyTexts :
          classified' = Append(classified, [command |-> command,
                                            result |-> ClassifyCall(command, classified)])
    /\ UNCHANGED <<now, patients, visits, appointments, voice_logs, ncalls, last,
                   resolved, interpreter, inflight, dbcalls>>

\* the fields of the interpreter after a step of interpret: no statement of
\* interpret, of the classifier or of a handler assigns to self or changes
\* the pattern registry (best_intent, best_confidence and entities are locals)
FieldsAfterStepForgetful(fields) ==
    [fields EXCEPT !.intent_patterns = SubSeq(fields.intent_patterns, 2,
                                               Len(fields.intent_patterns))]
FieldsAfterStep(fields) == fields

\* the commands of the concurrent calls
ConcCommands == {k \in 1..Len(Commands) :
                    Commands[k] \in {Cmd(<<"H", "e", "l", "l", "o">>), Cmd(<<"b", "o", "o", "k", " ", "a", "p", "p", "o", "i", "n", "t", "m", "e", "n", "t", " ", "f", "o", "r", " ", "t", "e", "s", "t", " ", "p", "a", "t", "i", "e", "n", "t">>),
                                     Cmd(<<"S", "h", "o", "w", " ", "l", "a", "s", "t", " ", "v", "i", "s", "i", "t", " ", "f", "o", "r", " ", "B", "o", "b">>), NoneCommand}}

\* lines 87-93: call c starts, normalises and classifies its command without
\* suspending; an exception is answered by the outer except clause
ConcBegin(c) ==
    /\ inflight[c].pc = "idle"
    /\ \E k \in ConcCommands :
          inflight' = [inflight EXCEPT ![c] =
              IF Fronts[k].failed
              THEN [pc |-> "done", k |-> k, front |-> Fronts[k], result |-> NoResult,
                    outcome |-> ErrorOutcome(Fronts[k].error), new_ids |-> {}]
              ELSE [pc |-> "process", k |-> k, front |-> Fronts[k], result |-> NoResult,
                    outcome |-> ErrorOutcome(<<>>), new_ids |-> {}]]
    /\ interpreter' = FieldsAfterStep(interpreter)
    /\ UNCHANGED <<now, patients, visits, appointments, voice_logs, ncalls, last,
                   resolved, classified, dbcalls>>

\* the identifiers of the rows of after that before does not hold
NewIds(before, after) ==
    {after[i].id : i \in 1..Len(after)} \ {before[i].id : i \in 1..Len(before)}

\* line 93: the handler of call c runs on the store as it is now; new_ids
\* records the rows the call INSERTed
ConcProcess(c) ==
    /\ inflight[c].pc = "process"
    /\ \E dbOk \in BOOLEAN :
          \E r \in {ProcessIntent(inflight[c].front.intent, inflight[c].front.entities,
                                  inflight[c].front.cleaned, now, patients, visits,
                                  appointments, dbOk)} :
             /\ appointments' = r.appointments
             /\ inflight' = [inflight EXCEPT ![c].pc = "log",
                                             ![c].result = [response |-> r.response,
                                                            data |-> r.data],
                                             ![c].new_ids = NewIds(appointments,
                                                                   r.appointments)]
    /\ interpreter' = FieldsAfterStep(interpreter)
    /\ UNCHANGED <<now, patients, visits, voice_logs, ncalls, last, resolved, classified, dbcalls>>

\* lines 96-108: call c logs the interaction and returns
ConcLog(c) ==
    /\ inflight[c].pc = "log"
    /\ \E logOk \in BOOLEAN :
          /\ voice_logs' = IF ~logOk /\ LogPropagates(logOk) THEN voice_logs
                            ELSE LogVoiceInteraction(voice_logs,
                                     LoggedTranscription(Commands[inflight[c].k],
                                                         inflight[c].front),
                                     inflight[c].front.intent, inflight[c].result.response,
                                     inflight[c].front.confidence, logOk)
          /\ inflight' = [inflight EXCEPT
                ![c].pc = "done",
                ![c].outcome = IF ~logOk /\ LogPropagates(logOk)
                               THEN ErrorOutcome(DbErrorText)
                               ELSE Outcome(inflight[c].front.intent,
                                            inflight[c].result.response,
                                            inflight[c].result.data,
                                            inflight[c].front.confidence)]
    /\ interpreter' = FieldsAfterStep(interpreter)
    /\ UNCHANGED <<now, patients, visits, appointments, ncalls, last, resolved,
                   classified, dbcalls>>

\* one call of DatabaseManager.create_appointment; dbcalls.creates records
\* the identifier it returned with its arguments
CreateAppointmentCall ==
    /\ Len(dbcalls.creates) < MaxCreate
    /\ \E patient_name \in StoreNames, appointment_time \in StoreTimes :
          /\ appointments' = CreateAppointment(appointments, patient_name, <<"D", "r", ".", " ", "T", "e", "s", "t">>,
                                               appointment_time, <<"T", "e", "s", "t", " ", "a", "p", "p", "o", "i", "n", "t", "m", "e", "n", "t">>)
          /\ dbcalls' = [dbcalls EXCEPT !.creates =
                Append(@, [appointment_id |-> appointments'[Len(appointments')].id,
                           patient_name |-> patient_name,
                           appointment_time |-> appointment_time])]
    /\ UNCHANGED <<now, patients, visits, voice_logs, ncalls, last, resolved, classified,
                   interpreter, inflight>>

\* one call of DatabaseManager.populate_demo_data, on an empty or a
\* populated database
PopulateDemoDataCall ==
    /\ dbcalls.populates < MaxPopulate
    /\ IF AlreadyPopulated(patients)
       THEN UNCHANGED <<patients, visits, appointments>>
       ELSE /\ patients' = patients \o DemoPatients
            /\ visits' = visits \o DemoVisits(now)
            /\ appointments' = DemoAppointments(appointments, now)
    /\ dbcalls' = [dbcalls EXCEPT !.populates = @ + 1]
    /\ UNCHANGED <<now, voice_logs, ncalls, last, resolved, classified, interpreter,
                   inflight>>

AllCommands == 1..Len(Commands)
ViewCommands == {k \in AllCommands : Commands[k] = Cmd(<<"S", "h", "o", "w", " ", "a", "p", "p", "o", "i", "n", "t", "m", "e", "n", "t", "s">>)}

\* the voice interface on the store the application starts with
InterpretAny == Interpret(AllCommands)
Next == Tick \/ PopulateDemoData \/ InterpretAny

Spec == Init /\ [][Next]_vars

\* the listing of appointments on a store the appointments API also writes
InterpretView == Interpret(ViewCommands)
NextView == Tick \/ PopulateDemoData \/ CreateAppointmentApi \/ InterpretView

SpecView == Init /\ [][NextView]_vars

\* time resolution called on its own while the clock advances
NextTime == Tick \/ ParseTimeCall

SpecTime == Init /\ [][NextTime]_vars

\* classification called on its own, several times on one interpreter
NextClassify == ClassifyAny

SpecClassify == Init /\ [][NextClassify]_vars

\* concurrent calls of interpret on one interpreter and one store
NextConcurrent == \E c \in 1..MaxInflight : ConcBegin(c) \/ ConcProcess(c) \/ ConcLog(c)

SpecConcurrent == Init /\ [][NextConcurrent]_vars

\* the database manager called on its own, as the database tests do
NextStore == CreateAppointmentCall \/ PopulateDemoDataCall

SpecStore == Init /\ [][NextStore]_vars


(***************************************************************************)
(* Properties of interpret                                                 *)
(***************************************************************************)
\* C1: interpret never raises to its caller; a failure outside the handlers
\* (normalisation, classification, dispatch, logging) is returned as the
\* outcome intent = "error", confidence = 0.0, data = None with a non-empty
\* diagnostic response
C1_InterpretNeverRaises ==
    last.called =>
        /\ ~last.outcome.raised
        /\ ~last.handled =>
              /\ last.outcome.intent = "error"
              /\ last.outcome.confidence = ZeroConfidence
              /\ last.outcome.data = NoneData
              /\ Len(last.outcome.response) > Len(<<"S", "o", "r", "r", "y", ",", " ", "I", " ", "c", "o", "u", "l", "d", "n", "'", "t", " ", "u", "n", "d", "e", "r", "s", "t", "a", "n", "d", " ", "t", "h", "a", "t", " ", "c", "o", "m", "m", "a", "n", "d", ".", " ", "E", "r", "r", "o", "r", ":", " ">>)

\* a call with None, which fails in normalisation, has returned
C1_Witness ==
    /\ last.called
    /\ last.command.none
    /\ last.front.failed
    /\ last.outcome.intent = "error"

\* C2: "Book an appointment for John Doe at 3 PM tomorrow" is classified as
\* book_appointment and an appointment is created: data is not None and holds
\* the new appointment_id and the appointment_time
C2_BookingCommandCreatesAppointment ==
    (last.called /\ last.command = Cmd(<<"B", "o", "o", "k", " ", "a", "n", " ", "a", "p", "p", "o", "i", "n", "t", "m", "e", "n", "t", " ", "f", "o", "r", " ", "J", "o", "h", "n", " ", "D", "o", "e", " ", "a", "t", " ", "3", " ", "P", "M", " ", "t", "o", "m", "o", "r", "r", "o", "w">>)
        /\ ~last.dbFailed)
    => /\ last.outcome.intent = "book_appointment"
       /\ last.outcome.data.kind = "booking"
       /\ last.outcome.data.booking.appointment_id > 0
       /\ Len(last.outcome.data.booking.appointment_time) > 0
       /\ last.created = 1

\* C3: the same command resolves the time to tomorrow at 15:00:00 and the
\* doctor to the default "Dr. Smith"
C3_PmSurvivesOnInterpretPath ==
    (last.called /\ last.command = Cmd(<<"B", "o", "o", "k", " ", "a", "n", " ", "a", "p", "p", "o", "i", "n", "t", "m", "e", "n", "t", " ", "f", "o", "r", " ", "J", "o", "h", "n", " ", "D", "o", "e", " ", "a", "t", " ", "3", " ", "P", "M", " ", "t", "o", "m", "o", "r", "r", "o", "w">>)
        /\ ~last.dbFailed)
    => /\ last.outcome.intent = "book_appointment"
       /\ last.outcome.data.booking.doctor_name = DefaultDoctor
       /\ last.outcome.data.booking.appointment_time
             = IsoFormat(Replace(AddDays(last.at, 1), 15, 0), <<"T">>)

\* C4: book_appointment with no patient name returns the clarification with
\* data None, makes no call of create_appointment and leaves the stored
\* appointments unchanged
C4_NoNameNoSideEffect ==
    [][(/\ ncalls' = ncalls + 1
        /\ last'.handled
        /\ last'.front.intent = "book_appointment"
        /\ Len(Title(GetEntity(last'.front.entities.has_patient_name,
                               last'.front.entities.patient_name, <<>>))) = 0)
       => /\ last'.outcome.response = BookClarification
          /\ last'.outcome.data = NoneData
          /\ last'.collab = 0
          /\ last'.created = 0
          /\ appointments' = appointments]_vars

\* a booking command whose patient name came out empty was answered
C4_Witness ==
    /\ last.called
    /\ last.handled
    /\ last.front.intent = "book_appointment"
    /\ Len(Title(GetEntity(last.front.entities.has_patient_name,
                           last.front.entities.patient_name, <<>>))) = 0
    /\ last.outcome.response = BookClarification

\* C5: when the Interaction Logger fails after the handler produced its
\* outcome, interpret returns that outcome: same intent, response, data and
\* confidence
C5_LogFailureKeepsOutcome ==
    (last.called /\ last.logFailed)
    => /\ ~last.outcome.raised
       /\ last.outcome = Outcome(last.front.intent, last.result.response,
                                 last.result.data, last.front.confidence)

\* the logger failed on a handled command and nothing was logged
C5_Witness ==
    /\ last.called
    /\ last.logFailed
    /\ last.handled
    /\ last.outcome.intent = "greeting"
    /\ voice_logs = <<>>

\* C6: every handler outcome is passed to the Interaction Logger once, with
\* the raw transcript, the classified intent, the outcome's response and the
\* classification confidence
C6_OutcomeLoggedOnceWithRawTranscript ==
    (last.called /\ last.handled)
    => /\ Len(last.logCalls) = 1
       /\ last.logCalls[1] = LogArgs(last.command.text, last.front.intent,
                                     last.outcome.response, last.front.confidence)
       /\ ~last.logFailed =>
             /\ Len(voice_logs) > 0
             /\ voice_logs[Len(voice_logs)].transcription = last.command.text

\* a command whose normalised text differs from the transcript was logged
C6_Witness ==
    /\ last.called
    /\ last.handled
    /\ ~last.logFailed
    /\ last.front.cleaned # last.command.text
    /\ Len(voice_logs) = 1
    /\ voice_logs[1].transcription = <<"S", "h", "o", "w", " ", "l", "a", "s", "t", " ", "v", "i", "s", "i", "t", " ", "f", "o", "r", " ", "A", "h", "m", "e", "d", " ", "R", "a", "z", "a">>

\* C7: a collaborator call that raises inside a handler gives the handler's
\* fixed "Sorry, I couldn't ..." response with data None, the intent and the
\* confidence of the classification, and the call is made once
C7_HandlerFailureIsPolite ==
    (last.called /\ last.dbFailed)
    => /\ ~last.outcome.raised
       /\ last.outcome.intent = last.front.intent
       /\ last.outcome.intent \in {"book_appointment", "query_patient",
                                   "view_appointments", "view_patients"}
       /\ last.outcome.confidence = last.front.confidence
       /\ last.outcome.data = NoneData
       /\ StartsAt(<<"S", "o", "r", "r", "y", ",", " ", "I", " ", "c", "o", "u", "l", "d", "n", "'", "t", " ">>, last.outcome.response, 1)
       /\ last.outcome.response \in {BookFailure, QueryFailure,
                                     ViewAppointmentsFailure, ViewPatientsFailure}
       /\ last.collab = 1
       /\ last.created = 0

\* create_appointment raised while booking
C7_Witness ==
    /\ last.called
    /\ last.dbFailed
    /\ last.outcome.intent = "book_appointment"
    /\ last.outcome.response = BookFailure

\* C8: the confidence of the classification and of interpret is in [0,1]
C8_ConfidenceInUnitInterval ==
    LET inUnit(c) == c.den > 0 /\ 0 <= c.num /\ c.num <= c.den
    IN /\ \A k \in 1..Len(Commands) : ~Fronts[k].failed => inUnit(Fronts[k].confidence)
       /\ last.called => inUnit(last.outcome.confidence)
       /\ \A i \in 1..Len(voice_logs) : inUnit(voice_logs[i].confidence)

\* a command matched on part of its text: confidence strictly between 0 and 1
C8_Witness ==
    /\ last.called
    /\ last.handled
    /\ 0 < last.outcome.confidence.num
    /\ last.outcome.confidence.num < last.outcome.confidence.den

\* C9: the response of every outcome interpret returns is a non-empty string
C9_ResponseNeverEmpty ==
    last.called => Len(last.outcome.response) > 0

\* the patient asked about is not in the directory
C9_Witness ==
    /\ last.called
    /\ last.front.intent = "query_patient"
    /\ last.collab = 1
    /\ ~last.dbFailed
    /\ last.outcome.data = NoneData
    /\ Len(last.outcome.response) > 0

\* C10: view_appointments returns as data exactly the stored appointments
\* whose time is after now, in ascending time order and not truncated, and
\* the response reports their number
C10_ViewReturnsFutureAppointments ==
    [][(/\ ncalls' = ncalls + 1
        /\ last'.handled
        /\ last'.front.intent = "view_appointments"
        /\ ~last'.dbFailed)
       => LET at(row) == FromIsoFormat(row.appointment_time).dt
              future == {i \in 1..Len(appointments) : TupleLess(DtKey(now), DtKey(at(appointments[i])))}
              rows == last'.outcome.data.rows
          IN /\ last'.outcome.data.kind = "list"
             /\ Len(rows) = Cardinality(future)
             /\ \A i \in future : \E k \in 1..Len(rows) : rows[k] = appointments[i]
             /\ \A k \in 1..Len(rows) : \A j \in 1..Len(rows) :
                   k < j => ~TupleLess(DtKey(at(rows[j])), DtKey(at(rows[k])))
             /\ Len(rows) > 0 =>
                   StartsAt(<<"Y", "o", "u", " ", "h", "a", "v", "e", " ">> \o Str(Len(rows)) \o <<" ", "u", "p", "c", "o", "m", "i", "n", "g", " ", "a", "p", "p", "o", "i", "n", "t", "m", "e", "n", "t", "s", ":">>,
                            last'.outcome.response, 1)]_vars

\* C11: query_patient without a patient name returns the clarification
\* without a call of the Patient Directory; with a name the directory does
\* not find, an explanatory response with data None; with a name it finds,
\* a summary containing the patient's name with the directory record as data
C11_QueryPatientBranches ==
    [][(/\ ncalls' = ncalls + 1
        /\ last'.handled
        /\ last'.front.intent = "query_patient"
        /\ ~last'.dbFailed)
       => LET name == Title(GetEntity(last'.front.entities.has_patient_name,
                                      last'.front.entities.patient_name, <<>>))
              hits == {i \in 1..Len(patients) : Contains(Lower(patients[i].name), Lower(name))}
              out == last'.outcome
          IN /\ Len(name) = 0 =>
                   /\ out.response = QueryClarification
                   /\ out.data = NoneData
                   /\ last'.collab = 0
             /\ (Len(name) > 0 /\ hits = {}) =>
                   /\ Contains(out.response, name)
                   /\ Contains(out.response, <<"n", "o", "t", " ", "f", "o", "u", "n", "d">>)
                   /\ out.data = NoneData
                   /\ last'.collab = 1
             /\ (Len(name) > 0 /\ hits # {}) =>
                   /\ out.data.kind = "info"
                   /\ out.data.info.patient \in {patients[i] : i \in hits}
                   /\ Contains(out.response, <<"P", "a", "t", "i", "e", "n", "t", ":", " ">> \o out.data.info.patient.name)
                   /\ last'.collab = 1]_vars

\* "Show last visit for Ahmed Raza" was answered from the demo directory
C11_Witness ==
    /\ last.called
    /\ last.command = Cmd(<<"S", "h", "o", "w", " ", "l", "a", "s", "t", " ", "v", "i", "s", "i", "t", " ", "f", "o", "r", " ", "A", "h", "m", "e", "d", " ", "R", "a", "z", "a">>)
    /\ last.outcome.data.kind = "info"
    /\ last.outcome.data.info.patient.name = <<"A", "h", "m", "e", "d", " ", "R", "a", "z", "a">>
    /\ Len(last.outcome.data.info.recent_visits) = 1

\* C12: a successful booking persists (title-cased patient name, doctor
\* name, resolved time, notes holding the original command as given to
\* interpret) and the returned data carries the identifier of the stored row
\* with the same patient name, doctor name and the resolved time in ISO form
C12_BookingPersistsOriginalCommand ==
    [][(/\ ncalls' = ncalls + 1
        /\ last'.handled
        /\ last'.front.intent = "book_appointment"
        /\ last'.created = 1)
       => LET row == appointments'[Len(appointments')]
              booking == last'.outcome.data.booking
          IN /\ Len(appointments') = Len(appointments) + 1
             /\ last'.outcome.data.kind = "booking"
             /\ row.patient_name = Title(last'.front.entities.patient_name)
             /\ row.doctor_name = last'.front.entities.doctor
             /\ booking.appointment_id = row.id
             /\ booking.patient_name = row.patient_name
             /\ booking.doctor_name = row.doctor_name
             /\ FromIsoFormat(booking.appointment_time).ok
             /\ FromIsoFormat(booking.appointment_time) = FromIsoFormat(row.appointment_time)
             /\ Contains(row.notes, last'.command.text)]_vars

\* C13: time resolution always yields a timestamp: a failure inside it
\* results in now + 1 hour, and whenever the book_appointment handler
\* succeeds the time it stores and returns is a timestamp, never null
C13_TimeResolutionAlwaysYieldsTime ==
    [][(/\ ncalls' = ncalls + 1
        /\ last'.handled
        /\ last'.front.intent = "book_appointment"
        /\ last'.created = 1)
       => LET row == appointments'[Len(appointments')]
              booking == last'.outcome.data.booking
              token == GetEntity(last'.front.entities.has_time,
                                 last'.front.entities.time, <<>>)
          IN /\ FromIsoFormat(row.appointment_time).ok
             /\ FromIsoFormat(booking.appointment_time).ok
             /\ (/\ ~DateParserParse(token).ok
                 /\ Run("digit", token, 1, 0) > 0
                 /\ ReplaceRaises(ParseInt(SubSeq(token, 1, Run("digit", token, 1, 0))), 0))
                => FromIsoFormat(booking.appointment_time).dt = AddHours(now, 1)]_vars
C13_Witness ==
    /\ last.called
    /\ last.command = Cmd(<<"B", "o", "o", "k", " ", "a", "p", "p", "o", "i", "n", "t", "m", "e", "n", "t", " ", "f", "o", "r", " ", "B", "o", "b", " ", "9", "9", ":", "9", "9">>)
    /\ last.created = 1
    /\ last.outcome.data.kind = "booking"
    /\ last.outcome.data.booking.appointment_time = IsoFormat(AddHours(last.at, 1), <<"T">>)

\* C14: the classifier returns without raising for every normalized text,
\* the empty text included; when no pattern matches the result is exactly
\* ("unknown", {}, 0.0), as it is for the empty text, and interpret("")
\* has intent "unknown"
C14_ClassifierTotal ==
    LET IsUnknown(cls) == /\ cls.intent = "unknown"
                          /\ cls.entities = NoEntities
                          /\ cls.confidence = ZeroConfidence
    IN /\ \A k \in 1..Len(Commands) :
            ~Commands[k].none =>
                /\ ~Fronts[k].failed
                /\ Matches[k] = {} => IsUnknown(Fronts[k])
                /\ Len(Fronts[k].cleaned) = 0 => (Matches[k] = {} /\ IsUnknown(Fronts[k]))
       /\ (last.called /\ last.command = Cmd(<<>>))
            => /\ ~last.front.failed
               /\ Len(last.front.cleaned) = 0
               /\ IsUnknown(last.front)
               /\ last.outcome.intent = "unknown"

\* interpret("") classified the empty text
C14_Witness ==
    /\ last.called
    /\ last.command = Cmd(<<>>)
    /\ last.front.cleaned = <<>>
    /\ last.front.confidence = ZeroConfidence
    /\ last.outcome.intent = "unknown"

\* C15: whenever at least one registry pattern matches somewhere in the
\* normalized text, however short the match, the intent is one of the six
\* registry intents and the confidence is positive; "unknown" with
\* confidence 0.0 is returned only when no pattern matches
C15_AnyMatchGivesRegistryIntent ==
    LET RegistryIntents == {IntentPatterns[i].intent : i \in 1..Len(IntentPatterns)}
        Classified(front, matches) ==
            /\ matches # {} => /\ front.intent \in RegistryIntents
                               /\ front.intent # "unknown"
                               /\ front.confidence.num > 0
            /\ front.intent = "unknown" => /\ matches = {}
                                            /\ front.confidence = ZeroConfidence
    IN /\ Cardinality(RegistryIntents) = 6
       /\ \A k \in 1..Len(Commands) :
            ~Fronts[k].failed => Classified(Fronts[k], Matches[k])
       /\ \A k \in 1..Len(Commands) :
            (last.called /\ last.command = Commands[k] /\ last.handled)
                => /\ Classified(last.front, Matches[k])
                   /\ last.outcome.intent = last.front.intent
                   /\ last.outcome.confidence = last.front.confidence

\* the greeting pattern matched two characters of a fifteen-character text
C15_Witness ==
    /\ last.called
    /\ last.command = Cmd(<<"p", "a", "t", "i", "e", "n", "t", " ", "h", "i", "s", "t", "o", "r", "y">>)
    /\ last.outcome.intent = "greeting"
    /\ last.outcome.confidence = [num |-> 2, den |-> 15]

\* C16: _parse_time("3 PM", a text containing "tomorrow") at
\* 2024-01-01T10:00 returns 2024-01-02T15:00:00; in general the hour and
\* minute of a parsable token are overlaid on the selected base day, with
\* seconds and microseconds zeroed and the base day's date kept
C16_TokenOverlaidOnBaseDay ==
    resolved.called =>
        LET parsed == DateParserParse(resolved.time_str)
            base_date == BaseDate(resolved.full_command, resolved.at)
        IN /\ (/\ resolved.time_str = <<"3", " ", "P", "M">>
               /\ Contains(resolved.full_command, <<"t", "o", "m", "o", "r", "r", "o", "w">>)
               /\ resolved.at = DateTime(1, 10, 0, 0, 0, FALSE))
              => resolved.result = DateTime(2, 15, 0, 0, 0, FALSE)
           /\ (Len(resolved.time_str) > 0 /\ parsed.ok)
              => /\ resolved.result.day = base_date.day
                 /\ resolved.result.hour = parsed.hour
                 /\ resolved.result.minute = parsed.minute
                 /\ resolved.result.second = 0
                 /\ resolved.result.micro = 0
                 /\ resolved.result.aware = base_date.aware

\* "3 PM" in a command for tomorrow, resolved at 2024-01-01T10:00
C16_Witness ==
    /\ resolved.called
    /\ resolved.time_str = <<"3", " ", "P", "M">>
    /\ resolved.full_command = <<"b", "o", "o", "k", " ", "a", "p", "p", "o", "i", "n", "t", "m", "e", "n", "t", " ", "f", "o", "r", " ", "b", "o", "b", " ", "t", "o", "m", "o", "r", "r", "o", "w">>
    /\ resolved.at = DateTime(1, 10, 0, 0, 0, FALSE)
    /\ resolved.result = DateTime(2, 15, 0, 0, 0, FALSE)

C18_EqualArgumentsEqualTimestamps ==
    [][(/\ resolved.called
        /\ resolved'.called
        /\ resolved'.time_str = resolved.time_str
        /\ resolved'.full_command = resolved.full_command)
       => resolved'.result = resolved.result]_vars

C20_StaticResponses ==
    (/\ last.called
     /\ last.handled
     /\ last.front.intent \in {"greeting", "help", "unknown"})
    => /\ last.outcome.intent = last.front.intent
       /\ last.outcome.data = NoneData
       /\ last.collab = 0
       /\ last.created = 0
       /\ last.front.intent = "greeting"
            => /\ last.outcome.response = <<"H", "e", "l", "l", "o", "!", " ", "I", "'", "m", " ", "A", "s", "s", "i", "s", "t", "X", ",", " ", "y", "o", "u", "r", " ", "m", "e", "d", "i", "c", "a", "l", " ", "a", "s", "s", "i", "s", "t", "a", "n", "t", ".", " ", "H", "o", "w", " ", "c", "a", "n", " ", "I", " ", "h", "e", "l", "p", " ", "y", "o", "u", " ", "t", "o", "d", "a", "y", "?">>
               /\ Contains(last.outcome.response, <<"A", "s", "s", "i", "s", "t", "X">>)
       /\ last.front.intent = "help"
            => /\ last.outcome.response = HelpMessage
               /\ Contains(last.outcome.response, <<"B", "o", "o", "k", " ", "a", "p", "p", "o", "i", "n", "t", "m", "e", "n", "t", "s">>)
               /\ Contains(last.outcome.response, <<"Q", "u", "e", "r", "y", " ", "p", "a", "t", "i", "e", "n", "t", "s">>)
               /\ Contains(last.outcome.response, <<"V", "i", "e", "w", " ", "a", "p", "p", "o", "i", "n", "t", "m", "e", "n", "t", "s">>)
       /\ last.front.intent = "unknown"
            => /\ last.outcome.response = UnknownResponse
               /\ Contains(last.outcome.response, <<"I", " ", "d", "i", "d", "n", "'", "t", " ", "u", "n", "d", "e", "r", "s", "t", "a", "n", "d", " ", "t", "h", "a", "t", " ", "c", "o", "m", "m", "a", "n", "d">>)

\* the help text returned on the populated store for a command that left a
\* patient name among the entities
C20_Witness ==
    /\ last.called
    /\ last.command = Cmd(<<"W", "h", "a", "t", " ", "c", "a", "n", " ", "f", "i", "n", "d", " ", "p", "a", "t", "i", "e", "n", "t", " ", "y", "o", "u", " ", "d", "o", "?">>)
    /\ last.front.intent = "help"
    /\ last.front.entities.has_patient_name
    /\ Len(patients) > 0
    /\ last.outcome.response = HelpMessage
    /\ last.outcome.data = NoneData

C22_StoreReturnsCreatedInTimeOrder ==
    LET rows == GetAppointments(appointments)
        at(row) == FromIsoFormat(row.appointment_time).dt
    IN /\ \A c \in 1..Len(dbcalls.creates) : dbcalls.creates[c].appointment_id > 0
       /\ dbcalls.populates = 0 => Len(rows) = Len(dbcalls.creates)
       /\ \A c \in 1..Len(dbcalls.creates) :
             Cardinality({i \in 1..Len(rows) :
                             /\ rows[i].id = dbcalls.creates[c].appointment_id
                             /\ rows[i].patient_name = dbcalls.creates[c].patient_name}) = 1
       /\ \A i, j \in 1..Len(rows) :
             (i < j /\ ~CompareRaises(at(rows[i]), at(rows[j])))
                => ~DtGreater(at(rows[i]), at(rows[j]))

\* C23: populate_demo_data is idempotent: a call on a database whose
\* patients table is not empty inserts nothing, so after any number of
\* calls the numbers of patients, visits and appointments are those after
\* the first call
C23_PopulateDemoDataIdempotent ==
    [][(dbcalls'.populates = dbcalls.populates + 1)
       => /\ Len(patients) > 0 => UNCHANGED <<patients, visits, appointments>>
          /\ dbcalls.populates >= 1 => UNCHANGED <<patients, visits, appointments>>
          /\ Len(patients') = Len(DemoPatients)
          /\ Len(visits') = 3
          /\ Len(appointments') = 3 + Len(dbcalls.creates)]_vars

\* the second call, as in test_duplicate_demo_data
C23_Witness ==
    /\ dbcalls.populates = 2
    /\ Len(patients) = 5
    /\ Len(visits) = 3
    /\ Len(appointments) = 3

\* C24: the classifier visits the intents in the registry order
\* (book_appointment, query_patient, view_appointments, view_patients,
\* greeting, help) and each intent's patterns in order, and a later match
\* replaces the best one only when its confidence is strictly greater: the
\* returned confidence is the maximum over the matching patterns and the
\* returned intent is the first one, in that order, that attains it
C24_FirstBestMatchWins ==
    LET Earlier(a, b) == a[1] < b[1] \/ (a[1] = b[1] /\ a[2] <= b[2])
    IN /\ [i \in 1..Len(IntentPatterns) |-> IntentPatterns[i].intent]
            = <<"book_appointment", "query_patient", "view_appointments",
                "view_patients", "greeting", "help">>
       /\ \A k \in 1..Len(Commands) :
            (~Fronts[k].failed /\ Matches[k] # {})
              => \E best \in Matches[k] :
                    /\ \A other \in Matches[k] :
                          /\ Confidences[k][other].num <= Confidences[k][best].num
                          /\ Confidences[k][other].num = Confidences[k][best].num
                                => Earlier(best, other)
                    /\ Fronts[k].confidence = Confidences[k][best]
                    /\ Fronts[k].intent = IntentPatterns[best[1]].intent
       /\ \A k \in 1..Len(Commands) :
            (last.called /\ last.handled /\ last.command = Commands[k])
              => /\ last.outcome.intent = Fronts[k].intent
                 /\ last.outcome.confidence = Fronts[k].confidence

\* a command that a query_patient pattern and a view_appointments pattern
\* both match in full: the earlier intent is returned
C24_Witness ==
    /\ last.called
    /\ last.command = Cmd(<<"S", "h", "o", "w", " ", "h", "i", "s", "t", "o", "r", "y", " ", "f", "o", "r", " ", "a", "p", "p", "o", "i", "n", "t", "m", "e", "n", "t", "s">>)
    /\ last.outcome.intent = "query_patient"
    /\ last.outcome.confidence = [num |-> 29, den |-> 29]
    /\ \E k \in 1..Len(Commands) :
          /\ Commands[k] = last.command
          /\ \E a, b \in Matches[k] :
                /\ IntentPatterns[a[1]].intent = "query_patient"
                /\ IntentPatterns[b[1]].intent = "view_appointments"
                /\ Confidences[k][a] = Confidences[k][b]
                /\ Confidences[k][a] = last.outcome.confidence

\* C25: the entities the classifier returns are those of the final winning
\* match only: a result whose winning intent has no capture groups
\* (view_appointments, view_patients, greeting, help) carries no entities
\* left over from an earlier, weaker book_appointment or query_patient match
C25_EntitiesOfWinningMatchOnly ==
    (/\ last.called
     /\ last.handled
     /\ last.front.intent \in {"view_appointments", "view_patients", "greeting", "help"})
    => last.front.entities = NoEntities

\* C26: the base day of time resolution follows a fixed priority on the
\* full text: "tomorrow" gives now + 1 day; otherwise "today" gives now;
\* otherwise "next week" gives now + 7 days; otherwise now + 1 hour; a text
\* with several of these words uses the one of highest priority
C26_BaseDayPriority ==
    resolved.called =>
        LET has(word) == Contains(resolved.full_command, word)
            day == IF has(<<"t", "o", "m", "o", "r", "r", "o", "w">>) THEN resolved.at.day + 1
                   ELSE IF has(<<"t", "o", "d", "a", "y">>) THEN resolved.at.day
                   ELSE IF has(<<"n", "e", "x", "t", " ", "w", "e", "e", "k">>) THEN resolved.at.day + 7
                   ELSE AddHours(resolved.at, 1).day
            hour == IF has(<<"t", "o", "m", "o", "r", "r", "o", "w">>) \/ has(<<"t", "o", "d", "a", "y">>) \/ has(<<"n", "e", "x", "t", " ", "w", "e", "e", "k">>)
                    THEN resolved.at.hour
                    ELSE AddHours(resolved.at, 1).hour
            parsed == DateParserParse(resolved.time_str)
        IN /\ Len(resolved.time_str) = 0
                => resolved.result = DateTime(day, hour, 0, 0, 0, FALSE)
           /\ (Len(resolved.time_str) > 0 /\ parsed.ok)
                => resolved.result = DateTime(day, parsed.hour, parsed.minute, 0, 0, FALSE)

\* "today" and "tomorrow" in one text: tomorrow is used
C26_Witness ==
    /\ resolved.called
    /\ resolved.full_command = <<"b", "o", "o", "k", " ", "a", "p", "p", "o", "i", "n", "t", "m", "e", "n", "t", " ", "t", "o", "d", "a", "y", " ", "o", "r", " ", "t", "o", "m", "o", "r", "r", "o", "w">>
    /\ resolved.time_str = <<"1", "0", ":", "3", "0">>
    /\ resolved.at = DateTime(1, 10, 0, 0, 0, FALSE)
    /\ resolved.result = DateTime(2, 10, 30, 0, 0, FALSE)

\* C27: for every raw command the normalized command is lowercased, has no
\* leading or trailing whitespace and no two consecutive whitespace
\* characters, and holds no punctuation character other than @ . : , -;
\* normalizing a normalized command returns it unchanged
C27_NormalizedCommandShape ==
    (last.called /\ ~last.command.none) =>
        LET text == last.front.cleaned
        IN /\ text = PreprocessCommand(last.command.text)
           /\ \A i \in 1..Len(text) :
                 /\ ~IsUpper(text[i])
                 /\ IsWord(text[i]) \/ IsSpace(text[i]) \/ text[i] \in {"@", ".", ":", ",", "-"}
           /\ Len(text) > 0 => ~IsSpace(text[1]) /\ ~IsSpace(text[Len(text)])
           /\ \A i \in 1..(Len(text) - 1) : ~(IsSpace(text[i]) /\ IsSpace(text[i + 1]))
           /\ PreprocessCommand(text) = text

\* C28: a call of interpret that returns the outcome with intent "error"
\* has created no appointment: a booking that was persisted is never
\* reported as an error, not even when logging the interaction fails
C28_ErrorOutcomeCreatedNothing ==
    [][(/\ ncalls' = ncalls + 1
        /\ last'.outcome.raised \/ last'.outcome.intent = "error")
       => /\ appointments' = appointments
          /\ last'.created = 0]_vars

\* the outer except clause answered the call
C28_Witness ==
    /\ last.called
    /\ last.command = NoneCommand
    /\ last.outcome.intent = "error"
    /\ last.created = 0
    /\ appointments = <<>>

\* a call that has returned a successful book_appointment outcome
BookedCall(c) ==
    /\ inflight[c].pc = "done"
    /\ inflight[c].outcome.intent = "book_appointment"
    /\ inflight[c].outcome.data.kind = "booking"

\* C29: under any interleaving of concurrent interpret calls, a call that
\* returns a successful book_appointment outcome created exactly one
\* appointment, the appointment_id of its data is that appointment's
\* identifier, the identifiers returned to different calls are pairwise
\* distinct, and a call whose booking failed at the store created none
C29_ConcurrentBookingsDistinct ==
    /\ \A c \in 1..Len(inflight) :
          /\ BookedCall(c)
               => /\ Cardinality(inflight[c].new_ids) = 1
                  /\ inflight[c].new_ids = {inflight[c].outcome.data.booking.appointment_id}
                  /\ Cardinality({i \in 1..Len(appointments) :
                         appointments[i].id
                            = inflight[c].outcome.data.booking.appointment_id}) = 1
          /\ (inflight[c].pc \in {"log", "done"} /\ inflight[c].result.response = BookFailure)
               => inflight[c].new_ids = {}
          /\ (inflight[c].pc = "done" /\ ~BookedCall(c)) => inflight[c].new_ids = {}
    /\ \A c, d \in 1..Len(inflight) :
          (c # d /\ BookedCall(c) /\ BookedCall(d))
             => inflight[c].outcome.data.booking.appointment_id
                  # inflight[d].outcome.data.booking.appointment_id

\* two calls in flight at once both booked, and got different identifiers
C29_Witness ==
    /\ BookedCall(1)
    /\ BookedCall(2)
    /\ inflight[1].outcome.data.booking.appointment_id = 2
    /\ inflight[2].outcome.data.booking.appointment_id = 1
    /\ Len(appointments) = 2

\* C30: only the book_appointment path writes domain data: a call of
\* interpret whose intent is query_patient, view_appointments, view_patients,
\* greeting, help or unknown leaves the stored appointments and patients as
\* they were and writes at most its interaction-log entry, and a
\* book_appointment call never creates or changes a patient record
C30_OnlyBookingWritesDomainData ==
    [][(ncalls' = ncalls + 1)
       => /\ patients' = patients
          /\ visits' = visits
          /\ (~last'.front.failed
                /\ last'.front.intent \in {"query_patient", "view_appointments",
                                           "view_patients", "greeting", "help", "unknown"})
               => /\ appointments' = appointments
                  /\ last'.created = 0
          /\ appointments' # appointments
               => /\ last'.front.intent = "book_appointment"
                  /\ Len(appointments') = Len(appointments) + 1
                  /\ SubSeq(appointments', 1, Len(appointments)) = appointments
          /\ Len(voice_logs') <= Len(voice_logs) + 1
          /\ SubSeq(voice_logs', 1, Len(voice_logs)) = voice_logs]_vars

\* a patient query on the populated store read it and wrote only its log entry
C30_Witness ==
    /\ last.called
    /\ last.front.intent = "query_patient"
    /\ last.outcome.data.kind = "info"
    /\ Len(patients) > 0
    /\ Len(appointments) > 0
    /\ last.created = 0
    /\ Len(voice_logs) = 1
====
